---- MODULE Spec2Model ----
(***************************************************************************)
(* Omni-Utils: the bridge <-> USD synchronisation engine.                  *)
(*                                                                         *)
(*   RuntimeBase.py  Runtime_Base : the read loop, the write loop, cleanup *)
(*   UsdManager.py   RuntimeUsd   : the staging buffer (_data_update), the *)
(*                                  merge tick (_on_update_event) and the  *)
(*                                  change listener (_notice_changed)      *)
(*   UsdManager.py   flatten_obj, get_op_from_key, UsdOp, create_attr ...  *)
(*                                                                         *)
(* Python strings are modelled as sequences of one-character strings, so   *)
(* that concatenation, split, join and startswith are computed as the code *)
(* computes them.  Python dicts are modelled as sequences of <<key, value>>*)
(* pairs with distinct keys, in insertion order.                           *)
(***************************************************************************)
EXTENDS Integers, Sequences, FiniteSets, TLC

\* ------------------------------------------------------------------ bounds
\* number of data-read events delivered to _on_data_read
MaxEvents == 3
\* nesting depth of a data-read payload
MaxDepth == 2
\* number of leaf values of a data-read payload
MaxLeaves == 2
\* number of callback invocations counted per loop
MaxCalls == 2
\* number of calls of Runtime_Base.cleanup()
MaxCleanups == 2
\* number of edits of write attributes
MaxEdits == 4
\* number of keys applied one by one with execute and create
MaxOps == 2

\* the iterations of the read loop followed, and the most a sleep of a
\* positive time ends late, in ms
MaxIter == 4
MaxLate == 1

\* the pieces between colons in the final segment of a full path
MaxParts == 4

\* the Component objects made under one name
MaxPairs == 2

\* the largest value assigned to a sleep or period property, in ms
MaxSleep == 4

\* --------------------------------------------------------------- variables
VARIABLES
    \* flatten_obj on its own: the payload handed to it, and how far the
    \* flatten / deposit / drain round trip has gone
    payload, fl_pc,
    \* RuntimeUsd: self._data_update, self._lock (its holder), self._stage.expired
    data_update, lock, stage_expired,
    \* the bridge's data callback thread inside _on_data_read: its position,
    \* the flattened data, the items of it dict.update has still to store,
    \* and the dict object self._data_update evaluated to
    rd_pc, rd_data, rd_todo, rd_target,
    \* the number of data-read events so far (each event's values carry it)
    ev_count,
    \* the main thread inside _on_update_event: its position, its locals
    \* flat and create
    tick_pc, flat, create,
    \* the document: the defined prims, the attributes, whether
    \* self._root_prim is cached
    prims, attrs, root_cached,
    \* the bridge: the write_variable calls received
    bridge_log,
    \* history: the notifications the listener decided on, the document
    \* operations of the current merge tick
    notices, tick_ops,
    \* history of the staging buffer: the flattened data of every finished
    \* deposit, the last event that stored each key, every mapping a tick
    \* swapped out, and what last happened to the buffer ("deposit": an item
    \* was stored, "drain": a tick swapped it out or found it empty, "skip": a
    \* tick returned at the expired test with items stored since the last
    \* drain)
    dep_hist, last_dep, drains, since,
    \* history of the current merge tick: the value of since and the state of
    \* the depositing thread when it tested the buffer, the number of items
    \* it took
    tick_since, tick_mid, tick_took,
    \* Runtime_Base: self._thread_is_alive, self.__threads (the names of the
    \* threads in it), whether self._event_stream is assigned
    thread_is_alive, threads, event_stream,
    \* the thread that constructs the runtime and calls cleanup(): its
    \* position, and the index of its "for thread in self.__threads" loops
    main_pc, thread_i,
    \* the position of the read loop thread and of the write loop thread
    loop_pc,
    \* history of the runtime: the callback invocations of each loop, the
    \* calls of cleanup() begun and returned, whether __del__ has run, the
    \* times the alive flag was cleared while set, the threads joined, the
    \* calls of the _cleanup hook, whether a callback was entered after a
    \* cleanup() had returned
    callbacks, cleanup_calls, cleanup_returns, deleted, stops, join_log,
    hook_runs, late_call,
    \* history of each loop: the runs of its starting hook and of its ending
    \* hook, whether a callback was entered before the starting hook (early)
    \* or after the ending hook (late), whether a callback has raised, and
    \* whether a callback was entered again after one raised, and the callbacks
    \* entered with the alive flag cleared (counted up to 2)
    loop_hist,
    \* history of the listener: the edits of write attributes made so far
    edits,
    \* UsdOp.execute and UsdOp.create applied key by key: whether a create is
    \* due ("idle" / "create"), the last operation applied with the document
    \* it found, and the number of keys applied
    op_pc, last_op, op_count,
    \* the read loop's schedule in integer milliseconds: time.time(), the
    \* local thread_start_time, self._refresh_period_ms, the position of the
    \* loop ("start": before the loop, "top": at the loop test, "call":
    \* before the callback), and its history
    clock, thread_start_time, refresh_period_ms, tm_pc, tm,
    \* get_op_from_key applied to one full path: its arguments, whether it
    \* has returned ("start" / "done"), and the UsdOp it returned
    kc_path, kc_key, kc_pc, compiled,
    \* System: whether a stage is open, the paths of the prims in it that
    \* carry a component option, self._components (name -> the component
    \* registered under it, 0 for none), the Component objects made so far
    \* per name, the cleanup() calls made on their runtime and usd objects,
    \* and the last method called
    sys,
    \* Runtime_Base: the attributes _write_sleep, _write_sleep_time (0: the
    \* object has no such attribute) and _refresh_period_ms in ms, the values
    \* last assigned through the write_sleep_time and refresh_period_ms
    \* properties (0: never), the time the write loop last handed to
    \* time.sleep and the period the read loop last used (0: none yet), each
    \* with the value that had last been assigned by then
    rb

flVars == <<payload, fl_pc>>
bufVars == <<data_update, lock, stage_expired, rd_pc, rd_data, rd_todo,
             rd_target, ev_count, tick_pc, flat, create>>
docVars == <<prims, attrs, root_cached, bridge_log, notices, tick_ops>>
histVars == <<dep_hist, last_dep, drains, since, tick_since, tick_mid, tick_took>>
opVars == <<op_pc, last_op, op_count>>
tmVars == <<clock, thread_start_time, refresh_period_ms, tm_pc, tm>>
kcVars == <<kc_path, kc_key, kc_pc, compiled>>
sysVars == <<sys>>
rbVars == <<rb>>
rtVars == <<thread_is_alive, threads, event_stream, main_pc, thread_i, loop_pc,
            callbacks, cleanup_calls, cleanup_returns, deleted, stops,
            join_log, hook_runs, late_call, loop_hist>>

\* ----------------------------------------------------------------- strings
RECURSIVE Concat(_)
\* the concatenation of a sequence of strings
Concat(ss) ==
    IF ss = <<>> THEN <<>> ELSE Head(ss) \o Concat(Tail(ss))

RECURSIVE SplitAcc(_, _, _)
\* str.split(sep) for a one-character separator, scanning left to right:
\* cur is the piece being read.
SplitAcc(s, sep, cur) ==
    IF s = <<>> THEN <<cur>>
    ELSE IF Head(s) = sep
         THEN <<cur>> \o SplitAcc(Tail(s), sep, <<>>)
         ELSE SplitAcc(Tail(s), sep, Append(cur, Head(s)))

\* s.split(sep)
Split(s, sep) == SplitAcc(s, sep, <<>>)

RECURSIVE Join(_, _)
\* sep.join(parts)
Join(parts, sep) ==
    IF parts = <<>> THEN <<>>
    ELSE IF Len(parts) = 1 THEN parts[1]
    ELSE parts[1] \o <<sep>> \o Join(Tail(parts), sep)

\* s[:-1]: the string without its last character, "" for ""
ButLast(s) == IF s = <<>> THEN <<>> ELSE SubSeq(s, 1, Len(s) - 1)

\* s.startswith(p)
StartsWith(s, p) == Len(p) <= Len(s) /\ SubSeq(s, 1, Len(p)) = p

\* ------------------------------------------------------------------- dicts
\* the keys of a dict, in insertion order
DictKeys(d) == [i \in 1..Len(d) |-> d[i][1]]

\* key in d
DictHas(d, k) == \E i \in 1..Len(d) : d[i][1] = k

\* d[k], for a key of d
DictGet(d, k) == d[CHOOSE i \in 1..Len(d) : d[i][1] = k][2]

\* d[k] = v: an existing key keeps its position, a new key goes last
DictSet(d, k, v) ==
    IF DictHas(d, k)
    THEN [i \in 1..Len(d) |-> IF d[i][1] = k THEN <<k, v>> ELSE d[i]]
    ELSE Append(d, <<k, v>>)

RECURSIVE DictUpdate(_, _)
\* d.update(e): every item of e is set in d, in e's order
DictUpdate(d, e) ==
    IF e = <<>> THEN d
    ELSE DictUpdate(DictSet(d, Head(e)[1], Head(e)[2]), Tail(e))

\* ---------------------------------------------------------------- payloads
\* A payload node is a dict (its items in insertion order) or a leaf value.
DictNode(items) == [isdict |-> TRUE, items |-> items, val |-> 0]
LeafNode(v) == [isdict |-> FALSE, items |-> <<>>, val |-> v]

\* ----------------------------------------------------------------- flatten
RECURSIVE flatten(_, _, _)
RECURSIVE flatten_items(_, _, _)
\* flatten_obj's inner flatten(obj, key), threading the result flat_obj:
\* a dict recurses into each field with key + k + ".", anything else is
\* stored under key[:-1].
flatten(flat_obj, obj, key) ==
    IF obj.isdict
    THEN flatten_items(flat_obj, obj.items, key)
    ELSE DictSet(flat_obj, ButLast(key), obj.val)

\* the loop "for k in obj" of flatten
flatten_items(flat_obj, items, key) ==
    IF items = <<>> THEN flat_obj
    ELSE flatten_items(
             flatten(flat_obj, Head(items)[2], key \o Head(items)[1] \o <<".">>),
             Tail(items), key)

\* flatten_obj(obj)
flatten_obj(obj) == flatten(<<>>, obj, <<>>)

\* ------------------------------------------------------------------ values
\* A value read from the bridge or stored in an attribute: its Python type
\* ("num", "str", "bool"), a number (the data-read event it came from, or
\* 0/1 for a bool) and, for a string that is a flat key, its text.
Num(n) == [ty |-> "num", v |-> n, s |-> <<>>]
StrV(n) == [ty |-> "str", v |-> n, s |-> <<>>]
BoolV(b) == [ty |-> "bool", v |-> IF b THEN 1 ELSE 0, s |-> <<>>]
KeyV(k) == [ty |-> "str", v |-> 0, s |-> k]

\* ------------------------------------------------ payloads of bounded size
\* field names of generated payloads; one of them contains the separator
FieldNames == {<<"a">>, <<"b">>, <<"a", ".", "b">>}
LeafValues == {Num(1), Num(2)}

RECURSIVE LeafCount(_)
RECURSIVE LeafCountItems(_)
\* the number of leaf values of a payload node
LeafCount(obj) == IF obj.isdict THEN LeafCountItems(obj.items) ELSE 1
LeafCountItems(items) ==
    IF items = <<>> THEN 0
    ELSE LeafCount(Head(items)[2]) + LeafCountItems(Tail(items))

RECURSIVE ItemSeqs(_, _, _)
RECURSIVE Children(_, _)
\* the item sequences of a dict of depth <= d with at most l leaves whose
\* field names are distinct names of the set names
ItemSeqs(d, l, names) ==
    {<<>>} \cup
    UNION { UNION { { <<<<n, c>>>> \o rest :
                        rest \in ItemSeqs(d, l - LeafCount(c), names \ {n}) } :
                    c \in Children(d - 1, l) } :
            n \in names }
\* the nodes a field may hold: a leaf value, or a dict of depth <= d
Children(d, l) ==
    (IF l >= 1 THEN {LeafNode(v) : v \in LeafValues} ELSE {}) \cup
    (IF d >= 1 THEN {DictNode(it) : it \in ItemSeqs(d, l, FieldNames)} ELSE {})

\* the payloads a data-read event may carry: the dicts of depth <= d with at
\* most l leaves
Payloads(d, l) == {DictNode(it) : it \in ItemSeqs(d, l, FieldNames)}

RECURSIVE LeafPaths(_, _)
\* the leaves of a payload node: <<the field names leading to it, its value>>
LeafPaths(obj, path) ==
    IF obj.isdict
    THEN UNION { LeafPaths(obj.items[i][2], Append(path, obj.items[i][1])) :
                 i \in 1..Len(obj.items) }
    ELSE {<<path, obj.val>>}

\* ------------------------------------------------------------ the document
\* UsdManager.py lines 13-17
ATTR_CURRENT_VALUE == <<"v", "a", "l", "u", "e">>
ATTR_WRITE_VALUE == <<"w", "r", "i", "t", "e", ":", "v", "a", "l", "u", "e">>
ATTR_WRITE_PAUSE == <<"w", "r", "i", "t", "e", ":", "p", "a", "u", "s", "e">>
ATTR_WRITE_ONCE == <<"w", "r", "i", "t", "e", ":", "o", "n", "c", "e">>
ATTR_WRITE_SYMBOL == <<"s", "y", "m", "b", "o", "l">>

\* self._root_prim_path of the component
root_prim_path == <<"/", "C">>

\* the value of an attribute that was created and never set
NoValue == [ty |-> "none", v |-> 0, s |-> <<>>]

\* Python truthiness of an attribute value (None and False are falsy)
Truthy(val) == val.ty # "none" /\ ~(val.ty = "bool" /\ val.v = 0)

\* equality of two values
SameValue(a, b) == a.ty = b.ty /\ a.v = b.v /\ a.s = b.s

\* an inference that knows strings only: booleans get the default type
TypeNameOfNoBool(value) ==
    IF value.ty = "str" THEN "String" ELSE "Double"

\* Sdf.ValueTypeNames chosen by create_attr for a value (lines 319-324)
TypeNameOf(value) ==
    IF value.ty = "str" THEN "String"
    ELSE IF value.ty = "bool" THEN "Bool"
    ELSE "Double"

\* whether attr.Set(value) accepts the value for an attribute of this type:
\* a string does not fit a numeric or boolean attribute, nor a number a
\* string attribute
Compatible(type, value) == (type = "String") = (value.ty = "str")

\* The document as the operations below thread it:
\*   prims   the paths of the defined prims
\*   attrs   <<prim path, attribute name>> -> [type, val]
\*   log     the bridge write_variable calls made so far
\*   seen    the notifications the listener decided on (symbol present)
\*   ops     the document operations of the merge tick, in order
\*   block   inside Sdf.ChangeBlock: notifications are held back
\*   pending the changed attributes held back by the change block
\*   exc     an exception is propagating
HasAttr(D, p, n) == <<p, n>> \in DOMAIN D.attrs
AttrVal(D, p, n) == D.attrs[<<p, n>>].val

\* the prim paths at and above a path: "/C/a/b" -> {"/C", "/C/a", "/C/a/b"}
Ancestors(path) ==
    LET segs == Split(path, "/")
    IN  {Join(SubSeq(segs, 1, i), "/") : i \in 2..Len(segs)}

\* stage.DefinePrim(path): the prim and the prims above it exist afterwards
DefinePrim(D, path) == [D EXCEPT !.prims = @ \cup Ancestors(path)]

WriteAttrs == {ATTR_WRITE_VALUE, ATTR_WRITE_ONCE, ATTR_WRITE_PAUSE}

\* mutant: write:pause also holds back a write asked for by write:once
ShouldForwardBoth(once, pause) == once /\ ~pause

\* mutant: every notification is forwarded
ShouldForwardAlways(once, pause) == TRUE

\* the listener's test "write_once_attr.Get() or not write_pause_attr.Get()"
\* (line 161)
ShouldForward(once, pause) == once \/ ~pause

\* mutant: the listener tests for write:pause in place of the symbol marker
HasWritePause(D, prim) == HasAttr(D, prim, ATTR_WRITE_PAUSE)

\* write_symbol.IsValid() (lines 149-150): the node has the symbol marker
HasSymbol(D, prim) == HasAttr(D, prim, ATTR_WRITE_SYMBOL)

\* attr.Get() of an attribute of a node: None when the node has no such
\* attribute
GetAttr(D, prim, n) == IF HasAttr(D, prim, n) THEN AttrVal(D, prim, n) ELSE NoValue

RECURSIVE notice_changed(_, _, _, _)
RECURSIVE attr_Set(_, _, _, _, _, _)
\* attr.Set(value) on an existing attribute.  The document store notifies
\* its listeners of an attribute whose value changed: at once, or when the
\* enclosing change block closes.  deliver says whether the store delivers
\* this notification to the listener.
attr_Set(D, p, n, value, deliver, nested) ==
    IF SameValue(AttrVal(D, p, n), value) THEN D
    ELSE LET D1 == [D EXCEPT !.attrs[<<p, n>>].val = value]
         IN  IF D1.block
             THEN [D1 EXCEPT !.pending = Append(@, <<p, n>>)]
             ELSE IF deliver THEN notice_changed(D1, p, n, nested) ELSE D1

\* _notice_changed (lines 133-169) for one changed attribute path p.n;
\* nested says whether the listener's own write:once edit is delivered back
\* to it while it runs.
notice_changed(D, p, n, nested) ==
    LET changed == p \o <<".">> \o n
        prim == Split(changed, ".")[1]
    IN  IF stage_expired THEN D
        ELSE IF ~StartsWith(changed, root_prim_path) THEN D
        ELSE IF n \notin WriteAttrs THEN D
        ELSE IF ~HasSymbol(D, prim) THEN D
        ELSE LET once == Truthy(AttrVal(D, prim, ATTR_WRITE_ONCE))
                 pause == Truthy(AttrVal(D, prim, ATTR_WRITE_PAUSE))
             IN  IF ShouldForward(once, pause)
                 THEN LET D1 == attr_Set(D, prim, ATTR_WRITE_ONCE,
                                         BoolV(FALSE), nested, nested)
                          call == [sym |-> GetAttr(D1, prim, ATTR_WRITE_SYMBOL),
                                   val |-> AttrVal(D1, prim, ATTR_WRITE_VALUE),
                                   prim |-> prim,
                                   once_at_call |->
                                       Truthy(AttrVal(D1, prim, ATTR_WRITE_ONCE))]
                      IN  [D1 EXCEPT
                             !.log = Append(@, call),
                             !.seen = Append(@, [prim |-> prim, name |-> n,
                                                 once |-> once, pause |-> pause,
                                                 wrote |-> TRUE,
                                                 val |-> call.val])]
                 ELSE [D EXCEPT
                         !.seen = Append(@, [prim |-> prim, name |-> n,
                                             once |-> once, pause |-> pause,
                                             wrote |-> FALSE,
                                             val |-> AttrVal(D, prim,
                                                       ATTR_WRITE_VALUE)])]

RECURSIVE notice_batch(_, _, _)
\* _notice_changed for a notification that lists several changed paths
\* (line 136)
notice_batch(D, paths, nested) ==
    IF paths = <<>> THEN D
    ELSE notice_batch(notice_changed(D, Head(paths)[1], Head(paths)[2], nested),
                      Tail(paths), nested)

\* with Sdf.ChangeBlock(): entering, and leaving (the held-back
\* notifications are delivered as one notification)
BlockOpen(D) ==
    [D EXCEPT !.block = TRUE, !.ops = Append(@, [kind |-> "open", key |-> <<>>,
                                                     found |-> FALSE])]
BlockClose(D, nested) ==
    notice_batch([D EXCEPT !.block = FALSE, !.pending = <<>>,
                           !.ops = Append(@, [kind |-> "close", key |-> <<>>,
                                              found |-> FALSE])],
                 D.pending, nested)

\* the attribute name create_attr treats apart (line 315)
XFORM_OP_TRANSFORM ==
    <<"x", "f", "o", "r", "m", "O", "p", ":", "t", "r", "a", "n", "s", "f", "o", "r", "m">>

\* a string that is the literal of a 4x4 matrix, "[[1, 0, 0, 0], ...]"
MatrixText(n) == [ty |-> "str", v |-> n, s |-> <<"[", "[">>]

\* ast.literal_eval, np.array and Gf.Matrix4d (line 287) accept the value
IsMatrixLiteral(value) == value.ty = "str" /\ value.s = <<"[", "[">>

\* Gf.Matrix4d(np.array(ast.literal_eval(value))) (line 287)
MatrixOf(value) == [ty |-> "matrix", v |-> value.v, s |-> value.s]

\* set_attr (lines 280-289): for an attribute of matrix type the value is
\* parsed from its literal (anything else raises); the value is set when it
\* fits the attribute's type, otherwise attr.Set raises
set_attr(D, p, n, value, nested) ==
    IF D.attrs[<<p, n>>].type = "Matrix4d"
    THEN IF IsMatrixLiteral(value)
         THEN attr_Set(D, p, n, MatrixOf(value), TRUE, nested)
         ELSE [D EXCEPT !.exc = TRUE]
    ELSE IF ~Compatible(D.attrs[<<p, n>>].type, value)
    THEN [D EXCEPT !.exc = TRUE]
    ELSE attr_Set(D, p, n, value, TRUE, nested)

\* prim.CreateAttribute(name, type) (lines 320-324): an attribute the prim
\* already has is returned as it is, a new one has the type asked for and
\* no value
CreateAttribute(D, p, n, type) ==
    IF HasAttr(D, p, n) THEN D
    ELSE [D EXCEPT !.attrs = (<<p, n>> :> [type |-> type, val |-> NoValue]) @@ @]

\* create_attr (lines 309-327): for the name "xformOp:transform" the
\* transform op is added first, which makes the attribute with the matrix
\* type (lines 315-317); then CreateAttribute with the type inferred from
\* the value, then set_attr
create_attr(D, p, n, value, nested) ==
    IF D.exc THEN D
    ELSE LET D0 == IF n = XFORM_OP_TRANSFORM
                   THEN CreateAttribute(D, p, n, "Matrix4d")
                   ELSE D
         IN  set_attr(CreateAttribute(D0, p, n, TypeNameOf(value)), p, n,
                      value, nested)

\* mutant: a missing prim is defined before not-found is returned
set_symbol_prim_value_define(D, full_key, key, value, nested) ==
    IF full_key \notin D.prims THEN <<FALSE, DefinePrim(D, full_key)>>
    ELSE IF ~HasAttr(D, full_key, key) THEN <<FALSE, D>>
    ELSE <<TRUE, set_attr(D, full_key, key, value, nested)>>

\* set_symbol_prim_value (lines 235-253): <<found, document>>
set_symbol_prim_value(D, full_key, key, value, nested) ==
    IF full_key \notin D.prims THEN <<FALSE, D>>
    ELSE IF ~HasAttr(D, full_key, key) THEN <<FALSE, D>>
    ELSE <<TRUE, set_attr(D, full_key, key, value, nested)>>

\* create_typed_prim (lines 256-257): DefinePrim with the value as type name
create_typed_prim(D, full_key, value) ==
    IF value.ty # "str" THEN [D EXCEPT !.exc = TRUE]
    ELSE DefinePrim(D, full_key)

\* create_symbol_prim_value (lines 260-277)
create_symbol_prim_value(D, full_key, attr, key, value, nested) ==
    LET D0 == DefinePrim(D, full_key)
        D1 == create_attr(D0, full_key, attr, value, nested)
        D2 == create_attr(D1, full_key, ATTR_WRITE_VALUE, value, nested)
        D3 == create_attr(D2, full_key, ATTR_WRITE_ONCE, BoolV(FALSE), nested)
        D4 == create_attr(D3, full_key, ATTR_WRITE_PAUSE, BoolV(FALSE), nested)
    IN  IF key # <<>>
        THEN create_attr(D4, full_key, ATTR_WRITE_SYMBOL, KeyV(key), nested)
        ELSE D4

\* the documents create_symbol_prim_value (lines 260-277) passes through:
\* after DefinePrim and after each of its create_attr calls
create_symbol_prim_value_steps(D, full_key, attr, key, value, nested) ==
    LET D0 == DefinePrim(D, full_key)
        D1 == create_attr(D0, full_key, attr, value, nested)
        D2 == create_attr(D1, full_key, ATTR_WRITE_VALUE, value, nested)
        D3 == create_attr(D2, full_key, ATTR_WRITE_ONCE, BoolV(FALSE), nested)
        D4 == create_attr(D3, full_key, ATTR_WRITE_PAUSE, BoolV(FALSE), nested)
    IN  <<D0, D1, D2, D3, D4>>
        \o (IF key # <<>>
            THEN <<create_attr(D4, full_key, ATTR_WRITE_SYMBOL, KeyV(key), nested)>>
            ELSE <<>>)

\* ------------------------------------------------------------ key compiler
OpAttr == <<"a", "t", "t", "r">>
OpType == <<"t", "y", "p", "e">>
OpSet == <<"s", "e", "t">>

\* UsdOp.__init__ (lines 390-394)
UsdOp(operation, path, key, value) ==
    [operation |-> operation, path |-> path, key |-> key, value |-> value]

\* a compiler that carries only the first piece after the operation
get_op_from_key_one_arg(full_path, key) ==
    LET segs == Split(full_path, "/")
        last == segs[Len(segs)]
        command == Split(last, ":")
    IN  IF Len(command) > 1 /\ command[1] = <<"u", "s", "d">>
        THEN UsdOp(command[2],
                   Join(SubSeq(segs, 1, Len(segs) - 1), "/"),
                   key,
                   IF Len(command) > 2 THEN command[3] ELSE <<>>)
        ELSE UsdOp(OpSet, full_path, key, ATTR_CURRENT_VALUE)

\* get_op_from_key (lines 419-430)
get_op_from_key(full_path, key) ==
    LET segs == Split(full_path, "/")
        last == segs[Len(segs)]
        command == Split(last, ":")
    IN  IF Len(command) > 1 /\ command[1] = <<"u", "s", "d">>
        THEN UsdOp(command[2],
                   Join(SubSeq(segs, 1, Len(segs) - 1), "/"),
                   key,
                   Join(SubSeq(command, 3, Len(command)), ":"))
        ELSE UsdOp(OpSet, full_path, key, ATTR_CURRENT_VALUE)

\* UsdOp.execute (lines 404-416): <<result, document>>; the call and
\* its result are entered in the document's list of operations
UsdOp_execute(D, op, value, nested) ==
    LET r == IF op.operation = OpAttr
             THEN set_symbol_prim_value(D, op.path, op.value, value, nested)
             ELSE IF op.operation = OpType
             THEN <<op.path \in D.prims, D>>
             ELSE set_symbol_prim_value(D, op.path, op.value, value, nested)
    IN  <<r[1], [r[2] EXCEPT !.ops = Append(@, [kind |-> "execute",
                                                key |-> op.key,
                                                found |-> r[1]])]>>

\* UsdOp.create (lines 396-402)
UsdOp_create(D, op, value, nested) ==
    LET D1 == [D EXCEPT !.ops = Append(@, [kind |-> "create", key |-> op.key,
                                           found |-> FALSE])]
    IN  IF op.operation = OpAttr
        THEN create_symbol_prim_value(D1, op.path, op.value, op.key, value, nested)
        ELSE IF op.operation = OpType
        THEN create_typed_prim(D1, op.path, value)
        ELSE create_symbol_prim_value(D1, op.path, op.value, op.key, value, nested)

\* ------------------------------------------------------ the staging buffer
\* _on_data_read line 126, self._data_update.update(data), as one step
Deposit(buffer, data) == DictUpdate(buffer, data)

\* ------------------------------------------- flatten round trip (SpecFlatten)
BufIdle ==
    /\ data_update = <<>> /\ lock = "free" /\ stage_expired = FALSE
    /\ rd_pc = "idle" /\ rd_data = <<>> /\ rd_todo = <<>> /\ rd_target = "buffer"
    /\ ev_count = 0
    /\ tick_pc = "idle" /\ flat = <<>> /\ create = <<>>

FlIdle == payload = DictNode(<<>>) /\ fl_pc = "off"

DocEmpty ==
    /\ prims = {} /\ attrs = <<>> /\ root_cached = FALSE
    /\ bridge_log = <<>> /\ notices = <<>> /\ tick_ops = <<>>

HistIdle ==
    /\ dep_hist = <<>> /\ last_dep = <<>> /\ drains = <<>> /\ since = "none"
    /\ tick_since = "none" /\ tick_mid = 0 /\ tick_took = 0

\* a constructed runtime whose loops run (not followed in this specification)
RtIdle ==
    /\ thread_is_alive = TRUE /\ threads = <<"read", "write">>
    /\ event_stream = TRUE /\ main_pc = "ready" /\ thread_i = 3
    /\ loop_pc = [t \in {"read", "write"} |-> "test"]
    /\ callbacks = [t \in {"read", "write"} |-> 0]
    /\ cleanup_calls = 0 /\ cleanup_returns = 0 /\ deleted = FALSE
    /\ stops = 0 /\ join_log = <<>> /\ hook_runs = 0 /\ late_call = FALSE
    /\ loop_hist = [t \in {"read", "write"} |->
                       [starting |-> 1, ending |-> 0, early |-> FALSE,
                        late |-> FALSE, raised |-> FALSE, again |-> FALSE,
                        after_stop |-> 0]]

EditIdle == edits = <<>>

\* no operation applied key by key (not followed in this specification)
OpIdle ==
    /\ op_pc = "idle" /\ op_count = 0
    /\ last_op = [kind |-> "none", op |-> <<>>, value |-> NoValue,
                   found |-> FALSE, prims |-> {}, attrs |-> <<>>]

\* the history of a read loop that has not begun
NoTiming ==
    [start |-> 0, iter |-> 0, k |-> 0, at |-> 0, instant |-> TRUE,
     now |-> 0, elapsed |-> 0, slept |-> 0, late |-> 0, late_sum |-> 0,
     behind |-> FALSE, prev_behind |-> FALSE, prev_elapsed |-> 0,
     prev_took |-> 0]

\* no read loop schedule followed (not followed in this specification)
TmIdle ==
    /\ clock = 0 /\ thread_start_time = 0 /\ refresh_period_ms = 20
    /\ tm_pc = "start" /\ tm = NoTiming

\* System.system_root
system_root == <<"/", "W", "/">>

\* the names components are registered under: two short names and the full
\* path of a prim outside the system root
ComponentNames == {<<"a">>, <<"b">>, <<"/", "X", "/", "a">>}

\* System.init (lines 38-46) with a stage open and no component prim in it
NewSystem ==
    [open |-> TRUE, stage |-> {},
     components |-> [n \in ComponentNames |-> 0],
     made |-> [n \in ComponentNames |-> 0],
     cleaned |-> {},
     last |-> [kind |-> "init", name |-> <<>>, had |-> FALSE, made |-> 0]]

\* Runtime_Base.__init__ lines 95-96, in ms: self._refresh_period_ms = 20,
\* self._write_sleep = 0.001; _write_sleep_time is not assigned
NewRuntimeBase ==
    [write_sleep |-> 1, write_sleep_time |-> 0, refresh_period_ms |-> 20,
     assigned |-> 0, period_assigned |-> 0,
     slept |-> 0, slept_when |-> 0, period |-> 0, period_when |-> 0]

\* no property of the runtime assigned (not followed in this specification)
RbIdle == rb = NewRuntimeBase

\* no System followed (not followed in this specification)
SysIdle == sys = NewSystem

\* no key compiled on its own (not followed in this specification)
KcIdle ==
    /\ kc_path = <<>> /\ kc_key = <<>> /\ kc_pc = "start"
    /\ compiled = [operation |-> <<>>, path |-> <<>>, key |-> <<>>,
                   value |-> <<>>]

InitFlatten ==
    /\ payload \in Payloads(MaxDepth, MaxLeaves)
    /\ fl_pc = "start"
    /\ BufIdle /\ DocEmpty /\ HistIdle /\ RtIdle /\ EditIdle
    /\ OpIdle /\ TmIdle /\ KcIdle /\ SysIdle /\ RbIdle

\* data = flatten_obj(data)                       (_on_data_read line 122)
FlFlatten ==
    /\ fl_pc = "start"
    /\ rd_data' = flatten_obj(payload)
    /\ fl_pc' = "flattened"
    /\ UNCHANGED <<rbVars, sysVars, kcVars, tmVars, opVars, rtVars, edits, payload, data_update, lock, stage_expired, rd_pc, rd_todo,
                   rd_target, ev_count, tick_pc, flat, create,
                   docVars, histVars>>

\* with self._lock: self._data_update.update(data)   (lines 125-126)
FlDeposit ==
    /\ fl_pc = "flattened"
    /\ data_update' = Deposit(data_update, rd_data)
    /\ fl_pc' = "deposited"
    /\ UNCHANGED <<rbVars, sysVars, kcVars, tmVars, opVars, rtVars, edits, payload, lock, stage_expired, rd_pc, rd_data, rd_todo,
                   rd_target, ev_count, tick_pc, flat, create,
                   docVars, histVars>>

\* flat = self._data_update; self._data_update = dict()   (lines 186-187)
FlDrain ==
    /\ fl_pc = "deposited"
    /\ flat' = data_update
    /\ data_update' = <<>>
    /\ fl_pc' = "drained"
    /\ UNCHANGED <<rbVars, sysVars, kcVars, tmVars, opVars, rtVars, edits, payload, lock, stage_expired, rd_pc, rd_data, rd_todo,
                   rd_target, ev_count, tick_pc, create,
                   docVars, histVars>>

NextFlatten == FlFlatten \/ FlDeposit \/ FlDrain

vars == <<flVars, bufVars, docVars, histVars, rtVars, edits, opVars, tmVars, kcVars, sysVars, rbVars>>

SpecFlatten == InitFlatten /\ [][NextFlatten]_vars

\* --------------------------------------- deposits and merge ticks (SpecBuffer)
\* the document as the operations thread it
Doc ==
    [prims |-> prims, attrs |-> attrs, root |-> root_cached, log |-> bridge_log,
     seen |-> notices, ops |-> tick_ops, block |-> FALSE, pending |-> <<>>,
     exc |-> FALSE]

\* the document variables take the value the operations computed
DocBecomes(D) ==
    /\ prims' = D.prims
    /\ attrs' = D.attrs
    /\ root_cached' = D.root
    /\ bridge_log' = D.log
    /\ notices' = D.seen
    /\ tick_ops' = D.ops

RECURSIVE Stamp(_, _)
RECURSIVE StampItems(_, _)
\* the payload of data-read event number n: every leaf value carries n
Stamp(obj, n) ==
    IF obj.isdict THEN DictNode(StampItems(obj.items, n))
    ELSE LeafNode([obj.val EXCEPT !.v = n])
StampItems(items, n) ==
    IF items = <<>> THEN <<>>
    ELSE <<<<Head(items)[1], Stamp(Head(items)[2], n)>>>> \o StampItems(Tail(items), n)

\* the shapes of the payloads the bridge delivers: two numeric fields, and
\* a string in a field that also carries numbers
BridgePayloads ==
    { DictNode(<< <<<<"a">>, LeafNode(Num(0))>>, <<<<"b">>, LeafNode(Num(0))>> >>),
      DictNode(<< <<<<"b">>, LeafNode(StrV(0))>> >>) }

\* mutant: the critical sections are entered without waiting for the lock
CanAcquireAlways(who) == TRUE

\* "with self._lock:" can be entered when no other thread holds the lock
\* (lines 125 and 185)
CanAcquire(who) == lock = "free"

\* mutant: a key already in the buffer keeps its old value
StoreItemKeepOld(buffer, k, v) ==
    IF DictHas(buffer, k) THEN buffer ELSE DictSet(buffer, k, v)

\* dict.update storing one item in the dict (line 126)
StoreItem(buffer, k, v) == DictSet(buffer, k, v)

\* mutant: the tick copies the buffer and does not replace it
AfterSwapKeep(buffer) == buffer

\* self._data_update = dict() (line 187): the buffer after the swap
AfterSwap(buffer) == <<>>

InitBuffer == FlIdle /\ BufIdle /\ DocEmpty /\ HistIdle /\ RtIdle /\ EditIdle /\ OpIdle /\ TmIdle /\ KcIdle /\ SysIdle /\ RbIdle

\* _on_data_read lines 119-122: the event's payload is flattened
RD_Begin(shape) ==
    /\ rd_pc = "idle"
    /\ ev_count < MaxEvents
    /\ ev_count' = ev_count + 1
    /\ rd_data' = flatten_obj(Stamp(shape, ev_count + 1))
    /\ rd_pc' = "acquire"
    /\ UNCHANGED <<rbVars, sysVars, kcVars, tmVars, opVars, rtVars, edits, data_update, lock, stage_expired, rd_todo, rd_target,
                   tick_pc, flat, create, flVars, docVars, histVars>>

\* line 125: the lock is taken; line 126 evaluates self._data_update
RD_Acquire ==
    /\ rd_pc = "acquire"
    /\ CanAcquire("read")
    /\ lock' = "read"
    /\ rd_target' = "buffer"
    /\ rd_todo' = rd_data
    /\ rd_pc' = "update"
    /\ UNCHANGED <<rbVars, sysVars, kcVars, tmVars, opVars, rtVars, edits, data_update, stage_expired, rd_data, ev_count, tick_pc, flat,
                   create, flVars, docVars, histVars>>

\* line 126: dict.update stores the next item, in the dict it was called on
RD_Update ==
    /\ rd_pc = "update"
    /\ rd_todo # <<>>
    /\ LET k == Head(rd_todo)[1]
           v == Head(rd_todo)[2]
       IN  /\ IF rd_target = "buffer"
              THEN data_update' = StoreItem(data_update, k, v) /\ flat' = flat
              ELSE flat' = StoreItem(flat, k, v) /\ data_update' = data_update
           /\ last_dep' = (k :> v.v) @@ last_dep
    /\ rd_todo' = Tail(rd_todo)
    /\ since' = "deposit"
    /\ UNCHANGED <<rbVars, sysVars, kcVars, tmVars, opVars, rtVars, edits, lock, stage_expired, rd_pc, rd_data, rd_target, ev_count,
                   tick_pc, create, flVars, docVars, dep_hist, drains,
                   tick_since, tick_mid, tick_took>>

\* leaving "with self._lock:" (line 126): the deposit is finished
RD_Release ==
    /\ rd_pc = "update"
    /\ rd_todo = <<>>
    /\ lock' = "free"
    /\ rd_pc' = "idle"
    /\ dep_hist' = Append(dep_hist, rd_data)
    /\ UNCHANGED <<rbVars, sysVars, kcVars, tmVars, opVars, rtVars, edits, data_update, stage_expired, rd_data, rd_todo, rd_target,
                   ev_count, tick_pc, flat, create, flVars, docVars, last_dep,
                   drains, since, tick_since, tick_mid, tick_took>>

\* _on_update_event lines 176-177: a tick begins; it returns at once when the
\* stage is expired
Tick_Start ==
    /\ tick_pc = "idle"
    /\ tick_took' = 0
    /\ tick_ops' = <<>>
    /\ tick_mid' = 0
    /\ IF stage_expired
       THEN /\ tick_pc' = "idle"
            /\ tick_since' = since
            /\ since' = IF since = "deposit" THEN "skip" ELSE since
       ELSE /\ tick_pc' = "len"
            /\ tick_since' = "none"
            /\ since' = since
    /\ UNCHANGED <<rbVars, sysVars, kcVars, tmVars, opVars, rtVars, edits, data_update, lock, stage_expired, rd_pc, rd_data, rd_todo,
                   rd_target, ev_count, flat, create, flVars, prims, attrs,
                   root_cached, bridge_log, notices, dep_hist, last_dep, drains>>

\* lines 180-181: len(self._data_update) == 0, read without the lock
Tick_Len ==
    /\ tick_pc = "len"
    /\ tick_since' = since
    /\ tick_mid' = IF rd_pc = "update" /\ rd_todo # <<>> /\ rd_todo # rd_data
                   THEN ev_count ELSE 0
    /\ IF Len(data_update) = 0
       THEN tick_pc' = "idle" /\ since' = "drain"
       ELSE tick_pc' = "acquire" /\ since' = since
    /\ UNCHANGED <<rbVars, sysVars, kcVars, tmVars, opVars, rtVars, edits, data_update, lock, stage_expired, rd_pc, rd_data, rd_todo,
                   rd_target, ev_count, flat, create, flVars, docVars, dep_hist,
                   last_dep, drains, tick_took>>

\* line 185: the lock is taken
Tick_Acquire ==
    /\ tick_pc = "acquire"
    /\ CanAcquire("main")
    /\ lock' = "main"
    /\ tick_pc' = "swap"
    /\ UNCHANGED <<rbVars, sysVars, kcVars, tmVars, opVars, rtVars, edits, data_update, stage_expired, rd_pc, rd_data, rd_todo,
                   rd_target, ev_count, flat, create, flVars, docVars, histVars>>

\* lines 186-187: flat = self._data_update; self._data_update = dict().
\* A dict.update in progress on the old dict goes on storing into it.
Tick_Swap ==
    /\ tick_pc = "swap"
    /\ flat' = data_update
    /\ data_update' = AfterSwap(data_update)
    /\ rd_target' = IF rd_pc = "update" THEN "flat" ELSE rd_target
    /\ drains' = Append(drains, [taken |-> data_update, latest |-> last_dep,
                                 mid |-> tick_mid,
                                 waiting |-> IF rd_pc = "acquire"
                                             THEN ev_count ELSE 0,
                                 raised |-> FALSE])
    /\ tick_took' = Len(data_update)
    /\ since' = "drain"
    /\ tick_pc' = "release"
    /\ UNCHANGED <<rbVars, sysVars, kcVars, tmVars, opVars, rtVars, edits, lock, stage_expired, rd_pc, rd_data, rd_todo, ev_count,
                   create, flVars, docVars, dep_hist, last_dep, tick_since,
                   tick_mid>>

\* a with block that ends after the loops: the holder keeps the lock
LockLeftHeld(who) == who

\* the lock when the holder leaves "with self._lock:" (lines 187, 126)
LockLeft(who) == "free"

\* leaving "with self._lock:" (line 187); create = dict() (line 190)
Tick_Release ==
    /\ tick_pc = "release"
    /\ lock' = LockLeft("main")
    /\ create' = <<>>
    /\ tick_pc' = "execute"
    /\ UNCHANGED <<rbVars, sysVars, kcVars, tmVars, opVars, rtVars, edits, data_update, stage_expired, rd_pc, rd_data, rd_todo,
                   rd_target, ev_count, flat, flVars, docVars, histVars>>

\* the root_prim property (lines 52-61): the prim is looked up, defined if
\* it is not there, and cached
root_prim(D) ==
    IF D.root THEN D
    ELSE [DefinePrim(D, root_prim_path) EXCEPT !.root = TRUE]

\* full_key of a flat key (lines 195-196)
FullKey(key) == root_prim_path \o <<"/">> \o Join(Split(key, "."), "/")

\* no key is queued for creation
QueueNever(cr, found, full_key, op, value) == cr

\* every key is queued for creation, found or not
QueueAlways(cr, found, full_key, op, value) ==
    DictSet(cr, full_key, <<op, value>>)

\* "if not op.execute(self._stage, value): create[full_key] = (op, value)"
\* (lines 198-199)
Queue(cr, found, full_key, op, value) ==
    IF found THEN cr ELSE DictSet(cr, full_key, <<op, value>>)

RECURSIVE execute_loop(_, _, _, _)
\* the loop of lines 194-199 over the items of flat: [D, create].  An
\* exception raised by execute ends the loop.
execute_loop(D, items, cr, nested) ==
    IF items = <<>> \/ D.exc THEN [D |-> D, create |-> cr]
    ELSE LET key == Head(items)[1]
             value == Head(items)[2]
             D0 == root_prim(D)
             full_key == FullKey(key)
             op == get_op_from_key(full_key, key)
             r == UsdOp_execute(D0, op, value, nested)
         IN  IF r[2].exc THEN [D |-> r[2], create |-> cr]
             ELSE execute_loop(r[2], Tail(items),
                               Queue(cr, r[1], full_key, op, value),
                               nested)

RECURSIVE create_loop(_, _, _)
\* the loop of lines 205-206 over the items of create
create_loop(D, items, nested) ==
    IF items = <<>> \/ D.exc THEN D
    ELSE create_loop(UsdOp_create(D, Head(items)[2][1], Head(items)[2][2], nested),
                     Tail(items), nested)

\* the history of the tick that made the last drain records whether an
\* exception left _on_update_event
TickRaised(exc) ==
    drains' = IF drains = <<>> THEN drains
              ELSE [drains EXCEPT ![Len(drains)].raised = exc]

\* lines 193-199: every drained item is executed inside one change block.
\* An exception leaves _on_update_event: nothing is created.
Tick_Execute ==
    /\ tick_pc = "execute"
    /\ \E nested \in BOOLEAN :
         LET R == execute_loop(BlockOpen(Doc), flat, <<>>, nested)
             D1 == BlockClose(R.D, nested)
         IN  /\ DocBecomes(D1)
             /\ TickRaised(D1.exc)
             /\ IF D1.exc
                THEN tick_pc' = "idle" /\ flat' = <<>> /\ create' = <<>>
                ELSE tick_pc' = "create" /\ flat' = flat /\ create' = R.create
    /\ UNCHANGED <<rbVars, sysVars, kcVars, tmVars, opVars, rtVars, edits, data_update, lock, stage_expired, rd_pc, rd_data, rd_todo,
                   rd_target, ev_count, flVars, dep_hist, last_dep, since,
                   tick_since, tick_mid, tick_took>>

\* lines 205-206: what execute did not find is created, outside the block
Tick_Create ==
    /\ tick_pc = "create"
    /\ \E nested \in BOOLEAN :
         LET D1 == create_loop(Doc, create, nested)
         IN  DocBecomes(D1) /\ TickRaised(D1.exc)
    /\ tick_pc' = "idle"
    /\ flat' = <<>>
    /\ create' = <<>>
    /\ UNCHANGED <<rbVars, sysVars, kcVars, tmVars, opVars, rtVars, edits, data_update, lock, stage_expired, rd_pc, rd_data, rd_todo,
                   rd_target, ev_count, flVars, dep_hist, last_dep, since,
                   tick_since, tick_mid, tick_took>>

\* the stage is closed by the application: self._stage.expired becomes true
StageClosed ==
    /\ tick_pc = "idle"
    /\ ~stage_expired
    /\ stage_expired' = TRUE
    /\ UNCHANGED <<rbVars, sysVars, kcVars, tmVars, opVars, rtVars, edits, data_update, lock, rd_pc, rd_data, rd_todo, rd_target,
                   ev_count, tick_pc, flat, create, flVars, docVars, histVars>>

\* _on_stage_event (lines 209-218), StageEventType.OPENED: self._stage is
\* the newly opened stage, which holds nothing of the old one
on_stage_event_opened ==
    /\ tick_pc = "idle"
    /\ stage_expired
    /\ stage_expired' = FALSE
    /\ prims' = {}
    /\ attrs' = <<>>
    /\ UNCHANGED <<rbVars, sysVars, kcVars, tmVars, opVars, rtVars, edits, data_update, lock, rd_pc, rd_data, rd_todo, rd_target,
                   ev_count, tick_pc, flat, create, flVars, root_cached,
                   bridge_log, notices, tick_ops, histVars>>

NextBuffer ==
    \/ \E shape \in BridgePayloads : RD_Begin(shape)
    \/ RD_Acquire
    \/ RD_Update
    \/ RD_Release
    \/ Tick_Start
    \/ Tick_Len
    \/ Tick_Acquire
    \/ Tick_Swap
    \/ Tick_Release
    \/ Tick_Execute
    \/ Tick_Create
    \/ StageClosed
    \/ on_stage_event_opened

SpecBuffer == InitBuffer /\ [][NextBuffer]_vars

\* --------------------------------- the loops of Runtime_Base (SpecRuntime)
Loops == {"read", "write"}

\* mutant: join returns without waiting for the thread
JoinableAlways(t) == TRUE

\* thread.join() (line 147) returns when the thread's target has returned
Joinable(t) == loop_pc[t] = "exited"

\* the state at the entry of __start_update_thread (line 100): lines 91-98
\* have run, no thread exists
InitRuntime ==
    /\ FlIdle /\ BufIdle /\ DocEmpty /\ HistIdle /\ EditIdle
    /\ thread_is_alive = FALSE
    /\ threads = <<>>
    /\ event_stream = FALSE
    /\ main_pc = "start"
    /\ thread_i = 0
    /\ loop_pc = [t \in Loops |-> "new"]
    /\ callbacks = [t \in Loops |-> 0]
    /\ cleanup_calls = 0
    /\ cleanup_returns = 0
    /\ deleted = FALSE
    /\ stops = 0
    /\ join_log = <<>>
    /\ hook_runs = 0
    /\ late_call = FALSE
    /\ loop_hist = [t \in Loops |->
                       [starting |-> 0, ending |-> 0, early |-> FALSE,
                        late |-> FALSE, raised |-> FALSE, again |-> FALSE,
                        after_stop |-> 0]]
    /\ OpIdle /\ TmIdle /\ KcIdle /\ SysIdle /\ RbIdle

\* __start_update_thread lines 133-139: the flag is set and the two threads
\* are made
start_update_thread ==
    /\ main_pc = "start"
    /\ IF ~thread_is_alive
       THEN /\ thread_is_alive' = TRUE
            /\ threads' = <<"read", "write">>
            /\ thread_i' = 1
            /\ main_pc' = "start_threads"
       ELSE /\ main_pc' = "subscribe"
            /\ UNCHANGED <<rbVars, sysVars, kcVars, tmVars, opVars, loop_hist, thread_is_alive, threads, thread_i>>
    /\ UNCHANGED <<rbVars, sysVars, kcVars, tmVars, opVars, loop_hist, flVars, bufVars, docVars, histVars, edits, event_stream,
                   loop_pc, callbacks, cleanup_calls, cleanup_returns, deleted,
                   stops, join_log, hook_runs, late_call>>

\* lines 141-142: thread.start() for each thread in turn
thread_start ==
    /\ main_pc = "start_threads"
    /\ IF thread_i <= Len(threads)
       THEN /\ loop_pc' = [loop_pc EXCEPT ![threads[thread_i]] = "starting"]
            /\ thread_i' = thread_i + 1
            /\ main_pc' = main_pc
       ELSE /\ main_pc' = "subscribe"
            /\ UNCHANGED <<rbVars, sysVars, kcVars, tmVars, opVars, loop_hist, loop_pc, thread_i>>
    /\ UNCHANGED <<rbVars, sysVars, kcVars, tmVars, opVars, loop_hist, flVars, bufVars, docVars, histVars, edits, thread_is_alive,
                   threads, event_stream, callbacks, cleanup_calls,
                   cleanup_returns, deleted, stops, join_log, hook_runs,
                   late_call>>

\* __subscibe_event_stream (lines 153-157), the last step of __init__
subscibe_event_stream ==
    /\ main_pc = "subscribe"
    /\ event_stream' = TRUE
    /\ main_pc' = "ready"
    /\ UNCHANGED <<rbVars, sysVars, kcVars, tmVars, opVars, loop_hist, flVars, bufVars, docVars, histVars, edits, thread_is_alive,
                   threads, thread_i, loop_pc, callbacks, cleanup_calls,
                   cleanup_returns, deleted, stops, join_log, hook_runs,
                   late_call>>

\* _read_data_starting() / _write_data_starting() (lines 185, 168)
loop_starting(t) ==
    /\ loop_pc[t] = "starting"
    /\ loop_pc' = [loop_pc EXCEPT ![t] = "test"]
    /\ loop_hist' = [loop_hist EXCEPT ![t].starting = @ + 1]
    /\ UNCHANGED <<rbVars, sysVars, kcVars, tmVars, opVars, flVars, bufVars, docVars, histVars, edits, thread_is_alive,
                   threads, event_stream, main_pc, thread_i, callbacks,
                   cleanup_calls, cleanup_returns, deleted, stops, join_log,
                   hook_runs, late_call>>

\* mutant: a loop that finds the flag cleared returns without its ending hook
NextAtTestNoEnding(t) ==
    IF ~thread_is_alive THEN "exited"
    ELSE IF t = "read" THEN "before" ELSE "invoke"

\* where a loop goes from its "while self._thread_is_alive:" test: into the
\* body (the read loop sleeps first, the write loop calls at once), or to
\* its ending hook
NextAtTest(t) ==
    IF ~thread_is_alive THEN "ending"
    ELSE IF t = "read" THEN "before" ELSE "invoke"

\* mutant: a callback that raises ends the loop
NextAtReturnRaiseEnds(t, raised) ==
    IF raised THEN "ending"
    ELSE IF t = "read" THEN "test" ELSE "after"

\* a loop that calls its callback again without testing the flag
NextAtReturnNoTest(t, raised) == "invoke"

\* where a loop goes when its callback returns or raises: the read loop
\* sleeps after a raise (line 206), the write loop after a return (line
\* 172); both then test the flag again
NextAtReturn(t, raised) ==
    IF (t = "read") = raised THEN "after" ELSE "test"

\* "while self._thread_is_alive:" (lines 189, 169).  The read loop sleeps
\* before it calls _read_data, the write loop calls _write_data at once.
loop_test(t) ==
    /\ loop_pc[t] = "test"
    /\ loop_pc' = [loop_pc EXCEPT ![t] = NextAtTest(t)]
    /\ UNCHANGED <<rbVars, sysVars, kcVars, tmVars, opVars, loop_hist, flVars, bufVars, docVars, histVars, edits, thread_is_alive,
                   threads, event_stream, main_pc, thread_i, callbacks,
                   cleanup_calls, cleanup_returns, deleted, stops, join_log,
                   hook_runs, late_call>>

\* time.sleep: of the read loop before the callback (lines 193-200) and
\* after a callback that raised (line 206), of the write loop after a
\* callback that returned (line 172)
loop_sleep(t) ==
    /\ loop_pc[t] \in {"before", "after"}
    /\ loop_pc' = [loop_pc EXCEPT ![t] =
                     IF loop_pc[t] = "before" THEN "invoke" ELSE "test"]
    /\ UNCHANGED <<rbVars, sysVars, kcVars, tmVars, opVars, loop_hist, flVars, bufVars, docVars, histVars, edits, thread_is_alive,
                   threads, event_stream, main_pc, thread_i, callbacks,
                   cleanup_calls, cleanup_returns, deleted, stops, join_log,
                   hook_runs, late_call>>

\* self._read_data() / self._write_data() is entered (lines 204, 171); the
\* count of invocations stops at MaxCalls
loop_invoke(t) ==
    /\ loop_pc[t] = "invoke"
    /\ loop_pc' = [loop_pc EXCEPT ![t] = "call"]
    /\ callbacks' = [callbacks EXCEPT ![t] = IF @ < MaxCalls THEN @ + 1 ELSE @]
    /\ late_call' = (late_call \/ cleanup_returns > 0)
    /\ loop_hist' = [loop_hist EXCEPT
                       ![t].early = @ \/ loop_hist[t].starting = 0,
                       ![t].late = @ \/ loop_hist[t].ending > 0,
                       ![t].again = @ \/ loop_hist[t].raised,
                       ![t].after_stop =
                           IF ~thread_is_alive /\ @ < 2 THEN @ + 1 ELSE @]
    /\ UNCHANGED <<rbVars, sysVars, kcVars, tmVars, opVars, flVars, bufVars, docVars, histVars, edits, thread_is_alive,
                   threads, event_stream, main_pc, thread_i, cleanup_calls,
                   cleanup_returns, deleted, stops, join_log, hook_runs>>

\* the callback returns or raises.  Read loop: "except Exception:
\* time.sleep(0.01)" (lines 205-206); write loop: time.sleep(self._write_sleep)
\* after a return, "except Exception: pass" (lines 172-174)
loop_return(t, raised) ==
    /\ loop_pc[t] = "call"
    /\ loop_pc' = [loop_pc EXCEPT ![t] = NextAtReturn(t, raised)]
    /\ loop_hist' = [loop_hist EXCEPT ![t].raised = @ \/ raised]
    /\ UNCHANGED <<rbVars, sysVars, kcVars, tmVars, opVars, flVars, bufVars, docVars, histVars, edits, thread_is_alive,
                   threads, event_stream, main_pc, thread_i, callbacks,
                   cleanup_calls, cleanup_returns, deleted, stops, join_log,
                   hook_runs, late_call>>

\* _read_data_ending() / _write_data_ending() (lines 208, 177), and the
\* thread's target returns
loop_ending(t) ==
    /\ loop_pc[t] = "ending"
    /\ loop_pc' = [loop_pc EXCEPT ![t] = "exited"]
    /\ loop_hist' = [loop_hist EXCEPT ![t].ending = @ + 1]
    /\ UNCHANGED <<rbVars, sysVars, kcVars, tmVars, opVars, flVars, bufVars, docVars, histVars, edits, thread_is_alive,
                   threads, event_stream, main_pc, thread_i, callbacks,
                   cleanup_calls, cleanup_returns, deleted, stops, join_log,
                   hook_runs, late_call>>

\* cleanup() is called (line 235): by the user, or by __del__ (line 108),
\* after which the object is gone
cleanup(by_del) ==
    /\ main_pc = "ready"
    /\ ~deleted
    /\ cleanup_calls < MaxCleanups
    /\ cleanup_calls' = cleanup_calls + 1
    /\ deleted' = by_del
    /\ main_pc' = "stop"
    /\ UNCHANGED <<rbVars, sysVars, kcVars, tmVars, opVars, loop_hist, flVars, bufVars, docVars, histVars, edits, thread_is_alive,
                   threads, event_stream, thread_i, loop_pc, callbacks,
                   cleanup_returns, stops, join_log, hook_runs, late_call>>

\* __stop_update_thread line 145: self._thread_is_alive = False
stop_update_thread ==
    /\ main_pc = "stop"
    /\ thread_is_alive' = FALSE
    /\ stops' = IF thread_is_alive THEN stops + 1 ELSE stops
    /\ thread_i' = 1
    /\ main_pc' = "join"
    /\ UNCHANGED <<rbVars, sysVars, kcVars, tmVars, opVars, loop_hist, flVars, bufVars, docVars, histVars, edits, threads,
                   event_stream, loop_pc, callbacks, cleanup_calls,
                   cleanup_returns, deleted, join_log, hook_runs, late_call>>

\* lines 146-147: thread.join() for each thread of self.__threads in turn
thread_join ==
    /\ main_pc = "join"
    /\ thread_i <= Len(threads)
    /\ Joinable(threads[thread_i])
    /\ join_log' = Append(join_log, threads[thread_i])
    /\ thread_i' = thread_i + 1
    /\ UNCHANGED <<rbVars, sysVars, kcVars, tmVars, opVars, loop_hist, flVars, bufVars, docVars, histVars, edits, thread_is_alive,
                   threads, event_stream, main_pc, loop_pc, callbacks,
                   cleanup_calls, cleanup_returns, deleted, stops, hook_runs,
                   late_call>>

\* line 149: self.__threads = []
threads_clear ==
    /\ main_pc = "join"
    /\ thread_i > Len(threads)
    /\ threads' = <<>>
    /\ main_pc' = "hook"
    /\ UNCHANGED <<rbVars, sysVars, kcVars, tmVars, opVars, loop_hist, flVars, bufVars, docVars, histVars, edits, thread_is_alive,
                   event_stream, thread_i, loop_pc, callbacks, cleanup_calls,
                   cleanup_returns, deleted, stops, join_log, hook_runs,
                   late_call>>

\* line 240: self._cleanup(), the teardown hook of the subclass, and
\* cleanup() returns
cleanup_hook ==
    /\ main_pc = "hook"
    /\ hook_runs' = hook_runs + 1
    /\ cleanup_returns' = cleanup_returns + 1
    /\ main_pc' = "ready"
    /\ UNCHANGED <<rbVars, sysVars, kcVars, tmVars, opVars, loop_hist, flVars, bufVars, docVars, histVars, edits, thread_is_alive,
                   threads, event_stream, thread_i, loop_pc, callbacks,
                   cleanup_calls, deleted, stops, join_log, late_call>>

NextRuntime ==
    \/ start_update_thread
    \/ thread_start
    \/ subscibe_event_stream
    \/ \E t \in Loops : loop_starting(t)
    \/ \E t \in Loops : loop_test(t)
    \/ \E t \in Loops : loop_sleep(t)
    \/ \E t \in Loops : loop_invoke(t)
    \/ \E t \in Loops : \E raised \in BOOLEAN : loop_return(t, raised)
    \/ \E t \in Loops : loop_ending(t)
    \/ \E by_del \in BOOLEAN : cleanup(by_del)
    \/ stop_update_thread
    \/ thread_join
    \/ threads_clear
    \/ cleanup_hook

SpecRuntime == InitRuntime /\ [][NextRuntime]_vars

\* The threads are scheduled and their sleeps end, a callback that was
\* entered returns or raises, and the thread that called the constructor or
\* cleanup() goes on through it; when cleanup() is called is up to the user.
FairRuntime ==
    /\ \A t \in Loops :
          /\ WF_vars(loop_starting(t)) /\ WF_vars(loop_test(t))
          /\ WF_vars(loop_sleep(t)) /\ WF_vars(loop_invoke(t))
          /\ WF_vars(\E raised \in BOOLEAN : loop_return(t, raised))
          /\ WF_vars(loop_ending(t))
    /\ WF_vars(start_update_thread) /\ WF_vars(thread_start)
    /\ WF_vars(subscibe_event_stream)
    /\ WF_vars(stop_update_thread) /\ WF_vars(thread_join)
    /\ WF_vars(threads_clear) /\ WF_vars(cleanup_hook)

SpecRuntimeLive == InitRuntime /\ [][NextRuntime]_vars /\ FairRuntime

\* ------------------------------- the change listener at work (SpecNotice)
\* a node the merge tick created for the key "x": it carries the symbol
\* bundle (value, write:value, write:once, write:pause, symbol)
MarkedNode == <<"/", "C", "/", "x">>

\* a node under the root that carries the write attributes and no symbol
\* marker
PlainNode == <<"/", "C", "/", "u">>

Nodes == {MarkedNode, PlainNode}

\* the values a user gives write:value
WriteValues == {Num(1), Num(2)}

\* the document after the merge tick has created the node of key "x" with
\* the value 1 (UsdOp.create of a set operation), next to the plain node
InitialDoc ==
    LET E == [prims |-> {}, attrs |-> <<>>, root |-> FALSE, log |-> <<>>,
              seen |-> <<>>, ops |-> <<>>, block |-> FALSE, pending |-> <<>>,
              exc |-> FALSE]
        D1 == create_symbol_prim_value(root_prim(E), MarkedNode,
                                       ATTR_CURRENT_VALUE, <<"x">>, Num(1), TRUE)
    IN  create_symbol_prim_value(D1, PlainNode, ATTR_CURRENT_VALUE, <<>>,
                                 Num(1), TRUE)

InitNotice ==
    /\ FlIdle /\ BufIdle /\ HistIdle /\ RtIdle
    /\ prims = InitialDoc.prims
    /\ attrs = InitialDoc.attrs
    /\ root_cached = TRUE
    /\ bridge_log = <<>>
    /\ notices = <<>>
    /\ tick_ops = <<>>
    /\ edits = <<>>
    /\ OpIdle /\ TmIdle /\ KcIdle /\ SysIdle /\ RbIdle

\* The user (or another part of the application) sets attribute n of node p
\* to a value it does not have: the document store notifies the listener,
\* which runs _notice_changed before the edit returns.  The edit is recorded
\* with write:once, write:pause and write:value as the listener finds them,
\* the number of write_variable calls made before the edit and during it,
\* and write:once as the listener leaves it.
Edit(p, n, value) ==
    /\ Len(edits) < MaxEdits
    /\ HasAttr(Doc, p, n)
    /\ ~SameValue(AttrVal(Doc, p, n), value)
    /\ \E nested \in BOOLEAN :
         LET D0 == [Doc EXCEPT !.attrs[<<p, n>>].val = value]
             D1 == attr_Set(Doc, p, n, value, TRUE, nested)
         IN  /\ DocBecomes(D1)
             /\ edits' = Append(edits,
                   [prim |-> p, name |-> n, val |-> value,
                    once |-> Truthy(AttrVal(D0, p, ATTR_WRITE_ONCE)),
                    pause |-> Truthy(AttrVal(D0, p, ATTR_WRITE_PAUSE)),
                    wv |-> AttrVal(D0, p, ATTR_WRITE_VALUE),
                    log_from |-> Len(bridge_log),
                    wrote |-> Len(D1.log) - Len(bridge_log),
                    once_after |-> Truthy(AttrVal(D1, p, ATTR_WRITE_ONCE))])
    /\ UNCHANGED <<rbVars, sysVars, kcVars, tmVars, opVars, flVars, bufVars, histVars, rtVars>>

\* an edit of write:value
EditWriteValue == \E p \in Nodes : \E v \in WriteValues : Edit(p, ATTR_WRITE_VALUE, v)

\* an edit of write:once
EditWriteOnce == \E p \in Nodes : \E b \in BOOLEAN : Edit(p, ATTR_WRITE_ONCE, BoolV(b))

\* an edit of write:pause
EditWritePause == \E p \in Nodes : \E b \in BOOLEAN : Edit(p, ATTR_WRITE_PAUSE, BoolV(b))

NextNotice == EditWriteValue \/ EditWriteOnce \/ EditWritePause

SpecNotice == InitNotice /\ [][NextNotice]_vars

\* ------------------------- the listener's filter of changed paths (SpecFilter)
\* a node of another component whose root path "/C0" has this component's
\* root path "/C" as a string prefix, with the symbol bundle that component
\* gave it
SiblingNode == <<"/", "C", "0", "/", "x">>

\* a node of another component, with its symbol bundle, whose path does not
\* begin with this component's root path
OutsideNode == <<"/", "D", "/", "x">>

FilterNodes == {MarkedNode, SiblingNode, OutsideNode}

\* the attributes edited: two the listener names and one it does not
FilterAttrs == {ATTR_WRITE_VALUE, ATTR_WRITE_ONCE, ATTR_CURRENT_VALUE}

\* path p lies in the subtree of the root: it is the root or continues it
\* with a "/"
UnderRoot(p) == p = root_prim_path \/ StartsWith(p, root_prim_path \o <<"/">>)

\* the document with the marked node of this component and the nodes the
\* other components created
FilterDoc ==
    LET D1 == create_symbol_prim_value(InitialDoc, SiblingNode,
                                       ATTR_CURRENT_VALUE, <<"x">>, Num(1), TRUE)
    IN  create_symbol_prim_value(D1, OutsideNode, ATTR_CURRENT_VALUE, <<"x">>,
                                 Num(1), TRUE)

InitFilter ==
    /\ FlIdle /\ BufIdle /\ HistIdle /\ RtIdle
    /\ prims = FilterDoc.prims
    /\ attrs = FilterDoc.attrs
    /\ root_cached = TRUE
    /\ bridge_log = <<>>
    /\ notices = <<>>
    /\ tick_ops = <<>>
    /\ edits = <<>>
    /\ OpIdle /\ TmIdle /\ KcIdle /\ SysIdle /\ RbIdle

\* an edit of an attribute of a node: the store notifies every listener
\* registered on the stage (lines 91-95), this component's among them
EditAny ==
    \E p \in FilterNodes : \E n \in FilterAttrs :
        \E v \in WriteValues \cup {BoolV(TRUE), BoolV(FALSE)} :
            /\ (v.ty = "bool") = (n = ATTR_WRITE_ONCE)
            /\ Edit(p, n, v)

NextFilter == EditAny

SpecFilter == InitFilter /\ [][NextFilter]_vars

\* ----------------------------- merge ticks on the document (SpecTick)
\* the payloads of the data-read events: as BridgePayloads, and one numeric
\* field alone
TickPayloads ==
    BridgePayloads \cup { DictNode(<< <<<<"a">>, LeafNode(Num(0))>> >>) }

\* _on_data_read (lines 119-126) as one step: the payload is flattened and
\* stored in the buffer under the lock
on_data_read(shape) ==
    /\ ev_count < MaxEvents
    /\ CanAcquire("read")
    /\ LET data == flatten_obj(Stamp(shape, ev_count + 1))
       IN  /\ data_update' = Deposit(data_update, data)
           /\ dep_hist' = Append(dep_hist, data)
           /\ last_dep' = [k \in {data[i][1] : i \in 1..Len(data)} \cup DOMAIN last_dep |->
                             IF DictHas(data, k) THEN ev_count + 1 ELSE last_dep[k]]
    /\ ev_count' = ev_count + 1
    /\ since' = "deposit"
    /\ UNCHANGED <<rbVars, sysVars, kcVars, tmVars, opVars, rtVars, edits, flVars, docVars, lock, stage_expired, rd_pc,
                   rd_data, rd_todo, rd_target, tick_pc, flat, create, drains,
                   tick_since, tick_mid, tick_took>>

NextTick ==
    \/ \E shape \in TickPayloads : on_data_read(shape)
    \/ Tick_Start
    \/ Tick_Len
    \/ Tick_Acquire
    \/ Tick_Swap
    \/ Tick_Release
    \/ Tick_Execute
    \/ Tick_Create

SpecTick == InitBuffer /\ [][NextTick]_vars

\* the main thread leaves the execute loop (Tick_Execute is the only step
\* that does) and the create loop (Tick_Create is)
ExecuteLoopEnds == tick_pc = "execute" /\ tick_pc' \in {"create", "idle"}
CreateLoopEnds == tick_pc = "create" /\ tick_pc' = "idle"

\* The update event stream delivers a tick in every frame of the application
\* (the subscription of lines 83-86), and a handler that has begun runs to
\* its end: every step of _on_update_event that stays possible is taken.
FairTick ==
    /\ WF_vars(Tick_Start) /\ WF_vars(Tick_Len) /\ WF_vars(Tick_Acquire)
    /\ WF_vars(Tick_Swap) /\ WF_vars(Tick_Release)
    /\ WF_tick_pc(ExecuteLoopEnds) /\ WF_tick_pc(CreateLoopEnds)

SpecTickLive == InitBuffer /\ [][NextTick]_vars /\ FairTick

\* --------------------- execute and create applied key by key (SpecOp)
\* flat keys of the kinds the key compiler tells apart: a plain key, an
\* attribute key, a type key, and an attribute key for the transform
OpKeys ==
    { <<"a">>,
      <<"a", ".", "u", "s", "d", ":", "a", "t", "t", "r", ":", "k">>,
      <<"a", ".", "u", "s", "d", ":", "t", "y", "p", "e">>,
      <<"a", ".", "u", "s", "d", ":", "a", "t", "t", "r", ":">> \o XFORM_OP_TRANSFORM }

\* the values applied: a number, a later number, a text, a boolean, a
\* matrix literal
OpValues == {Num(1), Num(2), StrV(1), BoolV(TRUE), MatrixText(1)}

\* an open stage with the root prim of the component and nothing else
InitOp ==
    /\ FlIdle /\ BufIdle /\ HistIdle /\ RtIdle /\ EditIdle /\ OpIdle /\ TmIdle /\ KcIdle /\ SysIdle /\ RbIdle
    /\ prims = {root_prim_path}
    /\ attrs = <<>>
    /\ root_cached = TRUE
    /\ bridge_log = <<>>
    /\ notices = <<>>
    /\ tick_ops = <<>>

\* the merge tick's step for one key (lines 193-199): the key is compiled
\* and executed inside a change block; a not-found result makes a create due
OpExecute(key, value) ==
    /\ op_pc = "idle"
    /\ op_count < MaxOps
    /\ \E nested \in BOOLEAN :
         LET op == get_op_from_key(FullKey(key), key)
             r == UsdOp_execute(BlockOpen(Doc), op, value, nested)
             D1 == BlockClose(r[2], nested)
         IN  /\ DocBecomes(D1)
             /\ last_op' = [kind |-> "execute", op |-> op, value |-> value,
                            found |-> r[1], prims |-> prims, attrs |-> attrs]
             /\ op_pc' = IF D1.exc \/ r[1] THEN "idle" ELSE "create"
    /\ op_count' = op_count + 1
    /\ UNCHANGED <<rbVars, sysVars, kcVars, tmVars, flVars, bufVars, histVars, rtVars, edits>>

\* the merge tick's create for that key (lines 205-206), outside the block
OpCreate ==
    /\ op_pc = "create"
    /\ \E nested \in BOOLEAN :
         DocBecomes(UsdOp_create(Doc, last_op.op, last_op.value, nested))
    /\ last_op' = [last_op EXCEPT !.kind = "create", !.prims = prims,
                                  !.attrs = attrs]
    /\ op_pc' = "idle"
    /\ UNCHANGED <<rbVars, sysVars, kcVars, tmVars, flVars, bufVars, histVars, rtVars, edits, op_count>>

NextOp ==
    \/ \E key \in OpKeys : \E value \in OpValues : OpExecute(key, value)
    \/ OpCreate

SpecOp == InitOp /\ [][NextOp]_vars

\* --------------------- the schedule of the read loop (SpecTiming)

\* time.sleep(0.01) after a callback that raised (line 206), in ms
BACKOFF_MS == 10

\* the values of self._refresh_period_ms followed: the constructor's 20
\* (line 95) and a period shorter than the backoff, set through the
\* refresh_period_ms property (lines 112-115)
Periods == {3, 20}

\* what time.time() returns when the read thread begins
StartTimes == {0, 7}

\* the outcomes of one _read_data() call with period P: the time it took
\* and whether it raised
Outcomes(P) ==
    {[took |-> d, raised |-> FALSE] : d \in {0, 1, P, 2 * P + 1}}
    \cup {[took |-> 0, raised |-> TRUE]}

\* sleep_time = self._refresh_period_ms / 1000 - (now - thread_start_time)
SleepTime(P, now, start_time) == P - (now - start_time)

\* the same assignment of thread_start_time in both branches: the loop
\* measures each period from the moment it woke
NextStartTimeNoDrift(now, sleep_time) == now

\* the same assignment of thread_start_time in both branches: the loop
\* keeps the fixed schedule also when it is behind
NextStartTimeCatchUp(now, sleep_time) == now + sleep_time

\* thread_start_time = now + sleep_time  /  thread_start_time = now
NextStartTime(now, sleep_time) ==
    IF sleep_time > 0 THEN now + sleep_time ELSE now

\* time.sleep(sleep_time)  /  time.sleep(0)
SleepArg(sleep_time) == IF sleep_time > 0 THEN sleep_time ELSE 0

InitTiming ==
    /\ FlIdle /\ BufIdle /\ DocEmpty /\ HistIdle /\ RtIdle /\ EditIdle
    /\ OpIdle /\ KcIdle /\ SysIdle /\ RbIdle
    /\ clock \in StartTimes
    /\ refresh_period_ms \in Periods
    /\ thread_start_time = 0
    /\ tm_pc = "start"
    /\ tm = NoTiming

\* thread_start_time = time.time()                          (line 187)
read_data_begin ==
    /\ tm_pc = "start"
    /\ thread_start_time' = clock
    /\ tm' = [tm EXCEPT !.start = clock]
    /\ tm_pc' = "top"
    /\ UNCHANGED <<clock, refresh_period_ms>>
    /\ UNCHANGED <<rbVars, sysVars, kcVars, flVars, bufVars, docVars, histVars, rtVars, edits, opVars>>

\* one pass of lines 189-199 with the alive flag set: the loop reads the
\* time, computes the sleep, moves thread_start_time and sleeps; a sleep of
\* a positive time may end up to MaxLate ms late
read_data_sleep ==
    /\ tm_pc = "top"
    /\ tm.iter < MaxIter
    /\ LET now == clock
           sleep_time == SleepTime(refresh_period_ms, now, thread_start_time)
       IN  \E late \in 0..MaxLate :
             /\ (sleep_time <= 0) => late = 0
             /\ thread_start_time' = NextStartTime(now, sleep_time)
             /\ clock' = clock + SleepArg(sleep_time) + late
             /\ tm' = [tm EXCEPT !.iter = @ + 1,
                                 !.now = now,
                                 !.elapsed = now - thread_start_time,
                                 !.slept = SleepArg(sleep_time),
                                 !.late = late,
                                 !.late_sum = @ + late,
                                 !.behind = ~(sleep_time > 0),
                                 !.prev_behind = tm.behind,
                                 !.prev_elapsed = tm.elapsed]
    /\ tm_pc' = "call"
    /\ UNCHANGED refresh_period_ms
    /\ UNCHANGED <<rbVars, sysVars, kcVars, flVars, bufVars, docVars, histVars, rtVars, edits, opVars>>

\* lines 202-206: the callback runs; when it raises the loop sleeps 10 ms
read_data_call ==
    /\ tm_pc = "call"
    /\ \E o \in Outcomes(refresh_period_ms) :
         /\ clock' = clock + o.took + (IF o.raised THEN BACKOFF_MS ELSE 0)
         /\ tm' = [tm EXCEPT !.k = @ + 1,
                             !.at = clock,
                             !.instant = @ /\ o.took = 0 /\ ~o.raised,
                             !.prev_took =
                                 o.took + (IF o.raised THEN BACKOFF_MS ELSE 0)]
    /\ tm_pc' = "top"
    /\ UNCHANGED <<thread_start_time, refresh_period_ms>>
    /\ UNCHANGED <<rbVars, sysVars, kcVars, flVars, bufVars, docVars, histVars, rtVars, edits, opVars>>

NextTiming == read_data_begin \/ read_data_sleep \/ read_data_call

SpecTiming == InitTiming /\ [][NextTiming]_vars

\* --------------------------- the key compiler on its own (SpecKey)

\* the pieces between the colons of a final segment: the command word, a
\* word that only begins with it, the two operations, a name, nothing
KeyTokens ==
    {<<"u", "s", "d">>, <<"u", "s", "d", "x">>, OpAttr, OpType, <<"k">>, <<>>}

\* the final segments of up to n pieces
FinalSegments(n) ==
    {Join(parts, ":") : parts \in UNION {[1..m -> KeyTokens] : m \in 1..n}}

\* what comes before the final segment: nothing, the root, a node, and a
\* node whose name is itself a command
PathPrefixes ==
    {<<>>, <<"/", "C">>, <<"/", "C", "/", "a">>,
     <<"/", "C", "/">> \o Join(<<<<"u", "s", "d">>, OpAttr, <<"k">>>>, ":")}

\* the full paths followed: a final segment alone, or after a prefix
FullPaths(n) ==
    FinalSegments(n)
    \cup {pre \o <<"/">> \o last : pre \in PathPrefixes, last \in FinalSegments(n)}

InitKey ==
    /\ FlIdle /\ BufIdle /\ DocEmpty /\ HistIdle /\ RtIdle /\ EditIdle
    /\ OpIdle /\ TmIdle /\ SysIdle /\ RbIdle
    /\ kc_path \in FullPaths(MaxParts)
    /\ kc_key = <<"k">>
    /\ kc_pc = "start"
    /\ compiled = [operation |-> <<>>, path |-> <<>>, key |-> <<>>,
                   value |-> <<>>]

\* get_op_from_key(full_path, key) called with one full path
KeyCompile ==
    /\ kc_pc = "start"
    /\ compiled' = get_op_from_key(kc_path, kc_key)
    /\ kc_pc' = "done"
    /\ UNCHANGED <<kc_path, kc_key>>
    /\ UNCHANGED <<rbVars, sysVars, tmVars, flVars, bufVars, docVars, histVars, rtVars, edits, opVars>>

NextKey == KeyCompile

SpecKey == InitKey /\ [][NextKey]_vars

\* --------------------------- the registry of components (SpecSystem)

\* the prims a user may give a component option: two below the system
\* root, one nested below it with the name of the first, one outside it
StagePaths ==
    {system_root \o <<"a">>, system_root \o <<"b">>,
     system_root \o <<"n", "/", "a">>, <<"/", "X", "/", "a">>}

\* get_normalize_prim_name (lines 49-52)
get_normalize_prim_name(name) ==
    IF StartsWith(name, <<"/">>) THEN name ELSE system_root \o name

\* the name find_components gives the prim at a path (lines 82-85)
ComponentNameOf(path) ==
    IF StartsWith(path, system_root)
    THEN LET segs == Split(path, "/") IN segs[Len(segs)]
    ELSE path

\* find_components (lines 64-87): the names of the prims that carry an
\* option (called with a stage open)
find_components(S) == {ComponentNameOf(path) : path \in S.stage}

\* a registry test that never finds the name
InComponentsNever(S, name) == FALSE

\* name in self._components
InComponents(S, name) == S.components[name] # 0

\* the names registered
Registered(S) == {n \in ComponentNames : S.components[n] # 0}

\* add_component (lines 179-192) with a stage open: for a name not
\* registered the prim is defined with the options and a Component with a
\* new runtime object and a new RuntimeUsd is stored under the name
add_component(S, name) ==
    IF InComponents(S, name) THEN S
    ELSE [S EXCEPT !.stage = @ \cup {get_normalize_prim_name(name)},
                   !.made[name] = @ + 1,
                   !.components[name] = S.made[name] + 1]

\* component.runtime.cleanup(); component.usd.cleanup() for the component
\* registered under the name (lines 59-60, 106-107)
cleanup_component(S, name) ==
    [S EXCEPT !.cleaned = @ \cup {<<name, S.components[name], "runtime">>,
                                  <<name, S.components[name], "usd">>}]

RECURSIVE add_new_components(_, _)
\* lines 99-101: add_component for each name found and not registered
add_new_components(S, names) ==
    IF names = {} THEN S
    ELSE LET n == CHOOSE x \in names : TRUE
         IN  add_new_components(
                 IF ~InComponents(S, n) THEN add_component(S, n) ELSE S,
                 names \ {n})

RECURSIVE remove_components(_, _)
\* lines 104-108: cleanup of both objects and del for each registered name
\* that was not found
remove_components(S, names) ==
    IF names = {} THEN S
    ELSE LET n == CHOOSE x \in names : TRUE
         IN  remove_components(
                 [cleanup_component(S, n) EXCEPT !.components[n] = 0],
                 names \ {n})

\* find_and_create_components (lines 89-111): nothing without a stage
find_and_create_components(S) ==
    IF ~S.open THEN S
    ELSE LET components == find_components(S)
             S1 == add_new_components(S, components)
         IN  remove_components(S1, Registered(S1) \ components)

RECURSIVE cleanup_all(_, _)
\* System.cleanup lines 58-60: cleanup of both objects of every component
cleanup_all(S, names) ==
    IF names = {} THEN S
    ELSE LET n == CHOOSE x \in names : TRUE
         IN  cleanup_all(cleanup_component(S, n), names \ {n})

\* System.cleanup (lines 54-62)
System_cleanup(S) ==
    [cleanup_all(S, Registered(S)) EXCEPT
        !.components = [n \in ComponentNames |-> 0]]

\* the Component objects made so far
MadeCount(S) == S.made[<<"a">>] + S.made[<<"b">>] + S.made[<<"/", "X", "/", "a">>]

\* the method returns: what it was and what it made
Returned(S0, S1, kind, name) ==
    /\ \A n \in ComponentNames : S1.made[n] <= MaxPairs
    /\ sys' = [S1 EXCEPT !.last = [kind |-> kind, name |-> name,
                                   had |-> (name # <<>> /\ S0.components[name] # 0),
                                   made |-> MadeCount(S1) - MadeCount(S0)]]
    /\ UNCHANGED <<rbVars, kcVars, tmVars, flVars, bufVars, docVars, histVars,
                   rtVars, edits, opVars>>

InitSystem ==
    /\ FlIdle /\ BufIdle /\ DocEmpty /\ HistIdle /\ RtIdle /\ EditIdle
    /\ OpIdle /\ TmIdle /\ KcIdle /\ RbIdle
    /\ sys = NewSystem

\* the user calls add_component(name, options) with a stage open
SysAdd(name) ==
    /\ sys.open
    /\ Returned(sys, add_component(sys, name), "add", name)

\* the user calls find_and_create_components()
SysFind == Returned(sys, find_and_create_components(sys), "find", <<>>)

\* the user calls System.cleanup()
SysCleanup == Returned(sys, System_cleanup(sys), "cleanup", <<>>)

\* the user gives a prim of the stage a component option
StageAddPrim(path) ==
    /\ sys.open /\ path \notin sys.stage
    /\ Returned(sys, [sys EXCEPT !.stage = @ \cup {path}], "stage", <<>>)

\* the user removes a component prim from the stage
StageRemovePrim(path) ==
    /\ sys.open /\ path \in sys.stage
    /\ Returned(sys, [sys EXCEPT !.stage = @ \ {path}], "stage", <<>>)

\* the stage is closed, and a new empty stage is opened
StageCloseOpen ==
    Returned(sys, [sys EXCEPT !.open = ~@, !.stage = {}], "stage", <<>>)

NextSystem ==
    \/ \E name \in ComponentNames : SysAdd(name)
    \/ SysFind
    \/ SysCleanup
    \/ \E path \in StagePaths : StageAddPrim(path)
    \/ \E path \in StagePaths : StageRemovePrim(path)
    \/ StageCloseOpen

SpecSystem == InitSystem /\ [][NextSystem]_vars

\* ------------------------- the properties of Runtime_Base (SpecProps)

\* the values assigned through the properties, in ms
SleepValues == 1..MaxSleep

\* runtime.write_sleep_time = value (lines 122-125):
\* setattr(self, "_write_sleep_time", value)
write_sleep_time_set(R, value) ==
    [R EXCEPT !.write_sleep_time = value, !.assigned = value]

\* runtime.refresh_period_ms = value (lines 112-115)
refresh_period_ms_set(R, value) ==
    [R EXCEPT !.refresh_period_ms = value, !.period_assigned = value]

\* time.sleep(self._write_sleep) of the write loop (line 172)
write_data_sleep(R) ==
    [R EXCEPT !.slept = R.write_sleep, !.slept_when = R.assigned]

\* self._refresh_period_ms / 1000 read by the read loop (line 191)
read_data_period(R) ==
    [R EXCEPT !.period = R.refresh_period_ms, !.period_when = R.period_assigned]

InitProps ==
    /\ FlIdle /\ BufIdle /\ DocEmpty /\ HistIdle /\ RtIdle /\ EditIdle
    /\ OpIdle /\ TmIdle /\ KcIdle /\ SysIdle
    /\ rb = NewRuntimeBase

\* the runtime's attributes become R
RbBecomes(R) ==
    /\ rb' = R
    /\ UNCHANGED <<sysVars, kcVars, tmVars, flVars, bufVars, docVars, histVars,
                   rtVars, edits, opVars>>

SetWriteSleepTime == \E value \in SleepValues : RbBecomes(write_sleep_time_set(rb, value))
SetRefreshPeriod == \E value \in SleepValues : RbBecomes(refresh_period_ms_set(rb, value))
WriteLoopSleeps == RbBecomes(write_data_sleep(rb))
ReadLoopSleeps == RbBecomes(read_data_period(rb))

NextProps ==
    SetWriteSleepTime \/ SetRefreshPeriod \/ WriteLoopSleeps \/ ReadLoopSleeps

SpecProps == InitProps /\ [][NextProps]_vars

\* ------------------------------------------------- claims on the buffer
\* event e has stored key k in the buffer
WroteKey(e, k) ==
    \/ e <= Len(dep_hist) /\ DictHas(dep_hist[e], k)
    \/ /\ e = ev_count /\ rd_pc = "update"
       /\ DictHas(rd_data, k) /\ ~DictHas(rd_todo, k)

\* the value event e stored under k is in the buffer
InBuffer(e, k) == DictHas(data_update, k) /\ DictGet(data_update, k).v = e

\* the value event e stored under k is in the mapping the i-th drain took
InDrain(i, e, k) ==
    DictHas(drains[i].taken, k) /\ DictGet(drains[i].taken, k).v = e

\* the number of places (the buffer, the drained mappings) holding it
Places(e, k) ==
    (IF InBuffer(e, k) THEN 1 ELSE 0)
    + Cardinality({i \in 1..Len(drains) : InDrain(i, e, k)})

\* a later event has stored the same key
Superseded(e, k) == \E e2 \in (e + 1)..ev_count : WroteKey(e2, k)

BufferKeys == {<<"a">>, <<"b">>}

\* C1 as stated: every deposited key/value is delivered to exactly one
\* drain: it is in the buffer the next drain will take or in the mapping of
\* exactly one drain, never in neither and never in both.
C1_EveryDepositDeliveredOnce ==
    \A e \in 1..ev_count : \A k \in BufferKeys :
        WroteKey(e, k) => Places(e, k) = 1

\* C1 amended: every deposited key/value is in the buffer or in the mapping
\* of one drain, never in both and never in two drains, and it is in
\* neither only if a later deposit of the same key replaced it in the
\* buffer before a drain took it.
C1_DepositDeliveredOnceUnlessSuperseded ==
    \A e \in 1..ev_count : \A k \in BufferKeys :
        WroteKey(e, k) =>
            /\ Places(e, k) <= 1
            /\ Places(e, k) = 0 => Superseded(e, k)

\* C1's case: a deposit was waiting for the lock while a drain swapped the
\* buffer, and its value came out with the next drain.
C1_Witness ==
    \E i \in 1..(Len(drains) - 1) :
        /\ drains[i].waiting # 0
        /\ \E k \in BufferKeys : InDrain(i + 1, drains[i].waiting, k)

\* C2: a drain takes all keys of a data-read event or none: if the mapping
\* of a drain holds one key with the value of event e, it holds every key
\* of e, with e's value or with the value of a later event that overwrote it.
C2_EventNeverSplit ==
    \A i \in 1..Len(drains) : \A e \in 1..ev_count :
        (\E k \in BufferKeys : InDrain(i, e, k)) =>
            /\ e <= Len(dep_hist)
            /\ \A k \in BufferKeys :
                 DictHas(dep_hist[e], k) =>
                     /\ DictHas(drains[i].taken, k)
                     /\ DictGet(drains[i].taken, k).v >= e

\* C2's case: a tick tested the buffer while an event of two keys was half
\* stored, and the drain took both keys of that event.
C2_Witness ==
    \E i \in 1..Len(drains) :
        LET e == drains[i].mid
        IN  /\ e # 0
            /\ e <= Len(dep_hist)
            /\ Len(dep_hist[e]) = 2
            /\ \A k \in BufferKeys : InDrain(i, e, k)

\* C3: the value a drain takes for a key is the value of the most recent
\* deposit of that key made before the drain, and over successive drains
\* the values taken for one key follow deposit order.
C3_LastWriteWins ==
    /\ \A i \in 1..Len(drains) : \A k \in BufferKeys :
         DictHas(drains[i].taken, k) =>
             /\ k \in DOMAIN drains[i].latest
             /\ DictGet(drains[i].taken, k).v = drains[i].latest[k]
    /\ \A i, j \in 1..Len(drains) : \A k \in BufferKeys :
         (i < j /\ DictHas(drains[i].taken, k) /\ DictHas(drains[j].taken, k)) =>
             DictGet(drains[i].taken, k).v < DictGet(drains[j].taken, k).v

\* C3's case: a key was deposited twice before a drain, which took the
\* second value, and a later drain took a still later value of that key.
C3_Witness ==
    \E i, j \in 1..Len(drains) : \E k \in BufferKeys :
        /\ i < j
        /\ DictHas(drains[i].taken, k) /\ DictHas(drains[j].taken, k)
        /\ \E e \in 1..ev_count :
             /\ WroteKey(e, k)
             /\ e < DictGet(drains[i].taken, k).v
             /\ Places(e, k) = 0

\* C4: when two merge ticks run with no deposit in between, the second takes
\* nothing from the buffer and performs no document operation.  A merge
\* tick is a tick that got to the buffer: it swapped it out or found it
\* empty.  (A tick that returned at the expired test of line 177 is not
\* one: it leaves the buffer as it is, for the first tick on an open stage.)
C4_SecondDrainTakesNothing ==
    tick_since = "drain" => tick_took = 0 /\ tick_ops = <<>>

\* C4's case: a tick drained the buffer, applied it, and the following
\* tick ran with nothing deposited in between.
C4_Witness ==
    /\ tick_since = "drain"
    /\ tick_pc = "idle"
    /\ drains # <<>>
    /\ prims # {}
    /\ since = "drain"

\* C5: flattening a payload, depositing the result into an empty buffer and
\* draining yields exactly one entry per leaf value of the payload: as many
\* entries as leaves, each leaf found under the key made of its field names
\* joined by ".", with its value.
C5_RoundTripExact ==
    fl_pc = "drained" =>
        /\ Len(flat) = Cardinality(LeafPaths(payload, <<>>))
        /\ \A lp \in LeafPaths(payload, <<>>) :
              /\ DictHas(flat, Join(lp[1], "."))
              /\ DictGet(flat, Join(lp[1], ".")) = lp[2]

\* ------------------------------------------------ claims on the runtime
\* the number of times thread t was joined
JoinsOf(t) == Cardinality({i \in 1..Len(join_log) : join_log[i] = t})

\* C6: when cleanup() runs its teardown hook, and once a cleanup() has
\* returned, the read loop and the write loop have both exited, and no
\* callback invocation begins after a cleanup() has returned.
C6_LoopsExitedBeforeTeardown ==
    /\ (main_pc = "hook" \/ cleanup_returns > 0) =>
           \A t \in Loops : loop_pc[t] = "exited"
    /\ ~late_call

\* C6's case: both loops have invoked their callbacks, cleanup() has joined
\* each of them and has returned.
C6_Witness ==
    /\ cleanup_returns > 0
    /\ \A t \in Loops : callbacks[t] > 0 /\ JoinsOf(t) = 1

\* C7: cleanup() is idempotent: each loop thread is stopped and joined
\* exactly once, and a second or later call of cleanup() repeats no stop,
\* no join and no teardown effect (the _cleanup hook) of the first call.
C7_CleanupIdempotent ==
    cleanup_returns > 0 =>
        /\ stops = 1
        /\ \A t \in Loops : JoinsOf(t) = 1
        /\ hook_runs = 1

\* ----------------------------------------------- claims on the listener
RECURSIVE EditsOf(_, _)
\* the edits of node p among the edits es, in order
EditsOf(es, p) ==
    IF es = <<>> THEN <<>>
    ELSE (IF Head(es).prim = p THEN <<Head(es)>> ELSE <<>>) \o EditsOf(Tail(es), p)

\* the edits of the node that has the symbol marker
MarkedEdits == EditsOf(edits, MarkedNode)

\* C8: for every change notification of a write attribute of a node that
\* has the symbol marker, write_variable is called if and only if
\* write:once is true or write:pause is false at that moment, and it is
\* called with the node's symbol and its current write:value.
C8_ForwardingRule ==
    /\ \A i \in 1..Len(notices) :
         notices[i].wrote = (notices[i].once \/ ~notices[i].pause)
    /\ \A i \in 1..Len(MarkedEdits) :
         LET e == MarkedEdits[i]
         IN  /\ (e.wrote > 0) = (e.once \/ ~e.pause)
             /\ \A j \in (e.log_from + 1)..(e.log_from + e.wrote) :
                  /\ bridge_log[j].val = e.wv
                  /\ bridge_log[j].sym = KeyV(<<"x">>)
                  /\ bridge_log[j].prim = MarkedNode

\* C8's case: with write:pause true, an edit with write:once false was not
\* forwarded and an edit that set write:once was forwarded.
C8_Witness ==
    \E i, j \in 1..Len(MarkedEdits) :
        /\ MarkedEdits[i].pause /\ ~MarkedEdits[i].once
        /\ MarkedEdits[i].wrote = 0
        /\ MarkedEdits[j].pause /\ MarkedEdits[j].once
        /\ MarkedEdits[j].wrote > 0

\* edits i..j of the marked node: write:pause is set to true with
\* write:once false, then write:value is edited any number of times, then
\* write:pause is set to false
PauseRun(i, j) ==
    /\ i < j /\ j <= Len(MarkedEdits)
    /\ MarkedEdits[i].name = ATTR_WRITE_PAUSE /\ MarkedEdits[i].pause
    /\ ~MarkedEdits[i].once
    /\ \A m \in (i + 1)..(j - 1) : MarkedEdits[m].name = ATTR_WRITE_VALUE
    /\ MarkedEdits[j].name = ATTR_WRITE_PAUSE /\ ~MarkedEdits[j].pause

\* edit j + 1 of the marked node is an edit of write:value
ThenOneEdit(j) ==
    j + 1 <= Len(MarkedEdits) /\ MarkedEdits[j + 1].name = ATTR_WRITE_VALUE

\* C9 as stated: with write:pause true and write:once false the edits of
\* write:value forward nothing, and after write:pause is then set to false
\* and write:value is edited once, exactly one write has been forwarded.
C9_OneWriteAfterUnpause ==
    \A i, j \in 1..Len(MarkedEdits) :
        PauseRun(i, j) =>
            /\ \A m \in i..(j - 1) : MarkedEdits[m].wrote = 0
            /\ ThenOneEdit(j) =>
                   MarkedEdits[j].wrote + MarkedEdits[j + 1].wrote = 1

\* C9 amended: with write:pause true and write:once false the edits of
\* write:value forward nothing; setting write:pause to false then forwards
\* the current write:value once, and the one edit of write:value after it
\* forwards exactly one write more.
C9_UnpauseForwardsThenOnePerEdit ==
    \A i, j \in 1..Len(MarkedEdits) :
        PauseRun(i, j) =>
            /\ \A m \in i..(j - 1) : MarkedEdits[m].wrote = 0
            /\ MarkedEdits[j].wrote = 1
            /\ bridge_log[MarkedEdits[j].log_from + 1].val = MarkedEdits[j].wv
            /\ ThenOneEdit(j) => MarkedEdits[j + 1].wrote = 1

\* C9's case: write:pause was set, write:value was edited, write:pause was
\* cleared and write:value was edited once more.
C9_Witness ==
    \E i, j \in 1..Len(MarkedEdits) :
        PauseRun(i, j) /\ j > i + 1 /\ ThenOneEdit(j)

\* C10: setting write:once to true on an initialized node forwards exactly
\* one write and leaves write:once false, for either value of write:pause.
C10_OnceForwardsExactlyOne ==
    \A i \in 1..Len(MarkedEdits) :
        (MarkedEdits[i].name = ATTR_WRITE_ONCE /\ MarkedEdits[i].once) =>
            /\ MarkedEdits[i].wrote = 1
            /\ ~MarkedEdits[i].once_after

\* C11: a change notification for an attribute of a node that does not have
\* the symbol marker never results in a write_variable call, whatever the
\* values of write:once and write:pause of that node: no edit of the plain
\* node is forwarded and the bridge receives no call for it.
C11_NoWriteWithoutSymbol ==
    /\ \A i \in 1..Len(edits) : edits[i].prim = PlainNode => edits[i].wrote = 0
    /\ \A j \in 1..Len(bridge_log) : bridge_log[j].prim # PlainNode

\* C11's case: the plain node was notified of a change with write:once
\* true, and of a change with write:once false and write:pause false, the
\* values for which a marked node is forwarded.
C11_Witness ==
    \E i, j \in 1..Len(edits) :
        /\ edits[i].prim = PlainNode /\ edits[i].once
        /\ edits[j].prim = PlainNode /\ ~edits[j].once /\ ~edits[j].pause

\* C12: the listener acts only on write:value, write:once and write:pause
\* of nodes under the component's own root: a change to another attribute,
\* or to a node outside the subtree (also one whose path only has the root
\* path as a string prefix), causes no bridge write and no change of
\* write:once by this component.
C12_OnlyOwnWriteAttrs ==
    \A i \in 1..Len(edits) :
        (~UnderRoot(edits[i].prim) \/ edits[i].name \notin WriteAttrs) =>
            /\ edits[i].wrote = 0
            /\ edits[i].once_after = edits[i].once

\* ------------------------------------------------ claims on the merge tick
\* the mapping the last merge tick took from the buffer
LastTaken == drains[Len(drains)].taken

\* the document holds value v for the flat key k
Applied(k, v) ==
    /\ HasAttr(Doc, FullKey(k), ATTR_CURRENT_VALUE)
    /\ SameValue(AttrVal(Doc, FullKey(k), ATTR_CURRENT_VALUE), v)

\* value v does not fit the declared type of the attribute of flat key k
Misfit(k, v) ==
    /\ HasAttr(Doc, FullKey(k), ATTR_CURRENT_VALUE)
    /\ ~Compatible(attrs[<<FullKey(k), ATTR_CURRENT_VALUE>>].type, v)

\* C13: when applying one drained key fails because its value does not fit
\* the attribute's type, every other key drained in the same tick is still
\* applied: once the tick is over, every key it drained is in the document
\* with the drained value, unless it is a key whose value does not fit.
C13_OtherKeysApplied ==
    (tick_pc = "idle" /\ drains # <<>>) =>
        \A i \in 1..Len(LastTaken) :
            \/ Applied(LastTaken[i][1], LastTaken[i][2])
            \/ Misfit(LastTaken[i][1], LastTaken[i][2])

\* ---------------------------------------- claims on execute and create
\* the target of the last operation was missing in the document it found:
\* the node, or (for set and attr) the attribute
TargetMissing ==
    \/ last_op.op.path \notin last_op.prims
    \/ /\ last_op.op.operation # OpType
       /\ <<last_op.op.path, last_op.op.value>> \notin DOMAIN last_op.attrs

\* C14: execute on a missing target has no side effect: for every kind of
\* operation, when the target node or the target attribute does not exist,
\* execute returns not-found and leaves the nodes and the attributes of the
\* document as they were.
C14_ExecuteMissingNoEffect ==
    (last_op.kind = "execute" /\ TargetMissing) =>
        /\ ~last_op.found
        /\ prims = last_op.prims
        /\ attrs = last_op.attrs

\* C14's case: execute of an attribute operation on a node that exists and
\* does not have the attribute.
C14_Witness ==
    /\ last_op.kind = "execute"
    /\ last_op.op.operation = OpAttr
    /\ last_op.op.path \in last_op.prims
    /\ TargetMissing
    /\ ~last_op.found

\* ------------------------------------------------- claims on the loops
\* C15: for the read loop and the write loop, the starting hook runs exactly
\* once and before the first callback invocation, and the ending hook runs
\* exactly once and after the last callback invocation, also when callbacks
\* raised and the loop went on.
C15_HooksOnceAroundCallbacks ==
    \A t \in Loops :
        /\ loop_hist[t].starting <= 1 /\ loop_hist[t].ending <= 1
        /\ ~loop_hist[t].early /\ ~loop_hist[t].late
        /\ callbacks[t] > 0 => loop_hist[t].starting = 1
        /\ loop_hist[t].ending = 1 => loop_pc[t] = "exited"
        /\ loop_pc[t] = "exited" =>
               loop_hist[t].starting = 1 /\ loop_hist[t].ending = 1

\* C15's case: a loop whose callback raised went on to another invocation
\* and has exited through its ending hook.
C15_Witness ==
    \E t \in Loops :
        /\ loop_pc[t] = "exited"
        /\ loop_hist[t].raised /\ loop_hist[t].again
        /\ loop_hist[t].ending = 1

\* C16: a callback failure never terminates a loop: a loop is at or past
\* its ending hook only when the alive flag is cleared, and from a callback
\* that returned or raised, and from the test that finds the flag set, it
\* goes on to the next invocation.
C16_RaiseNeverEndsLoop ==
    /\ [](\A t \in Loops :
             loop_pc[t] \in {"ending", "exited"} => ~thread_is_alive)
    /\ [][\A t \in Loops :
             /\ loop_pc[t] = "call" => loop_pc'[t] \in {"call", "after", "test"}
             /\ loop_pc[t] = "after" => loop_pc'[t] \in {"after", "test"}
             /\ (loop_pc[t] = "test" /\ thread_is_alive) =>
                    loop_pc'[t] \in {"test", "before", "invoke"}
             /\ loop_pc[t] = "before" => loop_pc'[t] \in {"before", "invoke"}
             /\ loop_pc[t] = "invoke" => loop_pc'[t] \in {"invoke", "call"}]_vars

\* C16's case: in both loops a callback has raised and the callback was
\* invoked again, with the alive flag still set.
C16_Witness ==
    /\ thread_is_alive
    /\ \A t \in Loops : loop_hist[t].raised /\ loop_hist[t].again

\* --------------------------------------- claims on the read loop's schedule
\* C17: with time in integer milliseconds, period P and callbacks that take
\* no time, the k-th invocation of the read callback happens at
\* loop start + k*P, plus only the lateness of the one sleep before it: the
\* schedule kept in thread_start_time is loop start + k*P after k passes,
\* whatever the earlier sleeps did, so the error does not accumulate.
C17_DriftCorrectedSchedule ==
    tm.instant =>
        /\ tm_pc # "start" =>
               thread_start_time = tm.start + tm.iter * refresh_period_ms
        /\ (tm_pc = "top" /\ tm.k > 0) =>
               tm.at = tm.start + tm.k * refresh_period_ms + tm.late
        /\ tm_pc = "call" =>
               clock = tm.start + (tm.k + 1) * refresh_period_ms + tm.late

\* C17's case: MaxIter instantaneous callbacks at the default period, with
\* at least two late wake-ups on the way and the last invocation exactly at
\* loop start + MaxIter * 20.
C17_Witness ==
    /\ tm.instant /\ tm_pc = "top" /\ tm.k = MaxIter
    /\ refresh_period_ms = 20
    /\ tm.late_sum >= 2 /\ tm.late = 0
    /\ tm.at = tm.start + MaxIter * 20

\* C18: the loop never sleeps a negative time; when the time since
\* thread_start_time is at least the period it sleeps zero time, resets
\* thread_start_time to the current time and still invokes the callback in
\* that pass; the pass after a pass without sleep sleeps the full period
\* when the callback between them took no time, and is itself without sleep
\* only when that callback took a period or more.
C18_BehindScheduleNoBurst ==
    tm.iter > 0 =>
        /\ tm.slept >= 0
        /\ tm.elapsed >= refresh_period_ms =>
               /\ tm.slept = 0 /\ tm.behind
               /\ thread_start_time = tm.now
        /\ tm.k = tm.iter - (IF tm_pc = "call" THEN 1 ELSE 0)
        /\ (tm_pc = "call" /\ tm.prev_behind) =>
               /\ tm.prev_took = 0 =>
                      tm.slept = refresh_period_ms /\ ~tm.behind
               /\ tm.behind => tm.prev_took >= refresh_period_ms

\* C18's case: a callback overran by two periods or more, one pass ran
\* without sleep, and the pass after it sleeps the full period.
C18_Witness ==
    /\ tm_pc = "call" /\ tm.prev_behind
    /\ tm.prev_elapsed >= 2 * refresh_period_ms
    /\ tm.slept = refresh_period_ms

\* ------------------------------------------- claims on the key compiler
\* the place of the last "/" of a path, 0 when it has none
LastSlash(path) ==
    LET at == {i \in 1..Len(path) : path[i] = "/"}
    IN  IF at = {} THEN 0 ELSE CHOOSE i \in at : \A j \in at : j <= i

\* the final segment: what follows the last "/"
FinalSegment(path) == SubSeq(path, LastSlash(path) + 1, Len(path))

\* the path without its final segment and the "/" before it
ParentPath(path) == SubSeq(path, 1, LastSlash(path) - 1)

\* the place of the first ":" of s at or after place i, Len(s) + 1 when
\* there is none
ColonFrom(s, i) ==
    LET at == {j \in i..Len(s) : s[j] = ":"}
    IN  IF at = {} THEN Len(s) + 1 ELSE CHOOSE j \in at : \A m \in at : j <= m

\* the operation the description assigns to a full path: for a final
\* segment beginning with "usd:", the word up to the next colon as the
\* operation, on the parent path, with all that follows that colon as
\* value; for any other final segment, set on the full path with "value"
DescribedOp(path, k) ==
    LET last == FinalSegment(path)
        c2 == ColonFrom(last, 5)
    IN  IF StartsWith(last, <<"u", "s", "d", ":">>)
        THEN [operation |-> SubSeq(last, 5, c2 - 1),
              path |-> ParentPath(path),
              key |-> k,
              value |-> SubSeq(last, c2 + 1, Len(last))]
        ELSE [operation |-> OpSet, path |-> path, key |-> k,
              value |-> <<"v", "a", "l", "u", "e">>]

\* C19: for every full path, a final segment of the form usd:<op>:<arg...>
\* gives the operation <op> on the parent path with <arg...>, inner colons
\* kept, as value; every other final segment gives a set operation on the
\* full path with the attribute name "value".
C19_KeyCompiledAsDescribed ==
    kc_pc = "done" => compiled = DescribedOp(kc_path, kc_key)

\* C19's case: a command below a parent path whose argument has a colon of
\* its own.
C19_Witness ==
    /\ kc_pc = "done"
    /\ compiled.operation = OpAttr
    /\ compiled.path = <<"/", "C", "/", "a">>
    /\ compiled.value = <<"k", ":", "k">>

\* ------------------------------------------ claims on attribute creation
\* the attributes the last create made: those the document did not have
\* before it
NewAttrs == {pn \in DOMAIN attrs : pn \notin DOMAIN last_op.attrs}

\* the value create_symbol_prim_value handed to create_attr for the
\* attribute of this name
CreatedWith(n) ==
    IF n \in {ATTR_WRITE_ONCE, ATTR_WRITE_PAUSE} THEN BoolV(FALSE)
    ELSE IF n = ATTR_WRITE_SYMBOL THEN KeyV(last_op.op.key)
    ELSE last_op.value

\* the type the value alone calls for: a matrix for the text of a 4x4
\* matrix literal, a string for other text, a boolean, else floating point
TypeByValue(value) ==
    IF value.ty = "str" /\ value.s = <<"[", "[">> THEN "Matrix4d"
    ELSE IF value.ty = "str" THEN "String"
    ELSE IF value.ty = "bool" THEN "Bool"
    ELSE "Double"

\* the type by name and value: a matrix for the attribute named
\* xformOp:transform whatever the value, else a string for every text (the
\* text of a matrix literal too), a boolean, else floating point
TypeByNameAndValue(n, value) ==
    IF n = XFORM_OP_TRANSFORM THEN "Matrix4d"
    ELSE IF value.ty = "str" THEN "String"
    ELSE IF value.ty = "bool" THEN "Bool"
    ELSE "Double"

\* C20 as stated: a newly created attribute is string-typed for a string
\* value, boolean-typed for a boolean value, matrix-typed for the text of a
\* 4x4 matrix literal, and floating-point-typed for every other value.
C20_TypeInferredFromValue ==
    last_op.kind = "create" =>
        \A pn \in NewAttrs : attrs[pn].type = TypeByValue(CreatedWith(pn[2]))

\* C20 amended: a newly created attribute is matrix-typed when it is named
\* xformOp:transform; any other is string-typed for a string value (the
\* text of a matrix literal included), boolean-typed for a boolean value and
\* floating-point-typed for every other value.
C20_TypeInferredFromNameAndValue ==
    last_op.kind = "create" =>
        \A pn \in NewAttrs :
            attrs[pn].type = TypeByNameAndValue(pn[2], CreatedWith(pn[2]))

\* C20's case: one create made a matrix-typed xformOp:transform from the
\* text of a matrix literal, a string-typed attribute from the same text and
\* a boolean-typed one.
C20_Witness ==
    /\ last_op.kind = "create"
    /\ last_op.value = MatrixText(1)
    /\ \E pn \in NewAttrs :
           pn[2] = XFORM_OP_TRANSFORM /\ attrs[pn].type = "Matrix4d"
           /\ attrs[pn].val.ty = "matrix"
    /\ \E pn \in NewAttrs : pn[2] = ATTR_WRITE_VALUE /\ attrs[pn].type = "String"
    /\ \E pn \in NewAttrs : attrs[pn].type = "Bool"

\* ------------------------------------------------ claims on cancellation
\* C21: once cleanup() has cleared the alive flag, each loop enters its
\* callback at most once more, and, every callback entered returning or
\* raising, both loops exit and every cleanup() that was called returns.
C21_CancellationEnds ==
    /\ [](\A t \in Loops : loop_hist[t].after_stop <= 1)
    /\ (stops > 0) ~> (\A t \in Loops : loop_pc[t] = "exited")
    /\ \A n \in 1..MaxCleanups :
          (cleanup_calls = n) ~> (cleanup_returns = n)

\* C21's case: cleanup() has returned with both loops exited, each after one
\* more callback entered with the flag cleared.
C21_Witness ==
    /\ cleanup_returns > 0
    /\ \A t \in Loops : loop_pc[t] = "exited" /\ loop_hist[t].after_stop = 1

\* ------------------------------------------------ claims on the registry
\* the Component objects made so far: <<name, number under that name>>
Components == {c \in ComponentNames \X (1..MaxPairs) : c[2] <= sys.made[c[1]]}

\* C22: every component that is no longer in the registry has had
\* cleanup() called on its runtime object and on its usd object, and
\* add_component with a name already registered makes no Component.
C22_LeftComponentsCleaned ==
    /\ \A c \in Components :
          sys.components[c[1]] # c[2] =>
              /\ <<c[1], c[2], "runtime">> \in sys.cleaned
              /\ <<c[1], c[2], "usd">> \in sys.cleaned
    /\ (sys.last.kind = "add" /\ sys.last.had) => sys.last.made = 0

\* C22's case: add_component was called with a registered name, after one
\* component was dropped or cleared and another was made under its name.
C22_Witness ==
    /\ sys.last.kind = "add" /\ sys.last.had
    /\ \E c \in Components :
          /\ sys.components[c[1]] # c[2] /\ sys.components[c[1]] # 0
          /\ <<c[1], c[2], "usd">> \in sys.cleaned

\* ------------------------------------- claims on the order within a tick
\* the places in the tick's list of operations of the entries of a kind
OpsAt(kind) == {i \in 1..Len(tick_ops) : tick_ops[i].kind = kind}

\* C23: within one tick there is one change block; every execute call is
\* made between its opening and its closing; every create call is made after
\* the block has closed and after every execute call; and a key is passed to
\* create only if its execute in this tick reported not-found.
C23_ExecuteInBlockCreateAfter ==
    /\ Cardinality(OpsAt("open")) <= 1 /\ Cardinality(OpsAt("close")) <= 1
    /\ \A i \in OpsAt("execute") :
          /\ \E o \in OpsAt("open") : o < i
          /\ \A c \in OpsAt("close") : i < c
    /\ \A i \in OpsAt("create") :
          /\ \E c \in OpsAt("close") : c < i
          /\ \A e \in OpsAt("execute") : e < i
          /\ \E e \in OpsAt("execute") :
                tick_ops[e].key = tick_ops[i].key /\ ~tick_ops[e].found

\* C23's case: a finished tick that executed one key on an existing target
\* and created another key.
C23_Witness ==
    /\ tick_pc = "idle"
    /\ \E e \in OpsAt("execute") : tick_ops[e].found
    /\ \E i \in OpsAt("create") : i = Len(tick_ops)

\* ------------------------------------------- claims on nested notifications
\* C24: one external edit of write:value, write:once or write:pause causes
\* at most one write_variable call, also when the listener's own clearing
\* of write:once is delivered to it as a nested notification.
C24_AtMostOneWritePerEdit ==
    \A i \in 1..Len(edits) : edits[i].wrote <= 1

\* C25: when an edit is forwarded because write:once is true, write:once is
\* still true at the moment the bridge call is made: the flag is cleared
\* only after the call.
C25_OnceStillSetAtBridgeCall ==
    \A i \in 1..Len(edits) :
        (edits[i].once /\ edits[i].wrote > 0) =>
            \E j \in (edits[i].log_from + 1)..(edits[i].log_from + edits[i].wrote) :
                bridge_log[j].once_at_call

\* ------------------------------------------- claims on the symbol bundle
\* in document D the node, if it has the symbol marker, has the attribute
\* and the three write attributes
BundleComplete(D, node, attr) ==
    HasAttr(D, node, ATTR_WRITE_SYMBOL) =>
        /\ HasAttr(D, node, attr)
        /\ \A n \in WriteAttrs : HasAttr(D, node, n)

\* C26: in every document state create_symbol_prim_value passes through, a
\* node that has the symbol marker has the value attribute being created
\* and write:value, write:once and write:pause: the marker appears last.
C26_SymbolMarkerLast ==
    [][(op_pc = "create" /\ last_op.op.operation # OpType) =>
          LET steps == create_symbol_prim_value_steps(
                           Doc, last_op.op.path, last_op.op.value,
                           last_op.op.key, last_op.value, FALSE)
          IN  \A i \in 1..Len(steps) :
                  BundleComplete(steps[i], last_op.op.path, last_op.op.value)]_vars

\* ------------------------------------------------- claims on the lock
\* C27: the tick holds the staging-buffer lock only for the swap: while its
\* execute or create calls are due or in progress the lock is not held by
\* the tick, and a deposit of the read thread waiting to enter its critical
\* section finds the lock free.
C27_NoDocumentOpUnderLock ==
    /\ lock = "main" => tick_pc \in {"swap", "release"}
    /\ tick_pc \in {"execute", "create"} =>
          /\ lock # "main"
          /\ rd_pc = "acquire" => CanAcquire("read")

\* C27's case: the read thread holds the lock and stores items while the
\* tick is between its execute calls and its create calls.
C27_Witness ==
    /\ tick_pc = "create" /\ Len(create) > 0
    /\ lock = "read" /\ rd_pc = "update"

\* ------------------------------------------------ claims on the properties
\* C28: the time the write loop sleeps between two callbacks is the value
\* last assigned through write_sleep_time, 1 ms when none was assigned, as
\* the period the read loop uses is the value of refresh_period_ms.
C28_WriteSleepIsConfigured ==
    /\ rb.slept # 0 =>
          rb.slept = (IF rb.slept_when = 0 THEN 1 ELSE rb.slept_when)
    /\ rb.period # 0 =>
          rb.period = (IF rb.period_when = 0 THEN 20 ELSE rb.period_when)

\* ------------------------------------------ claims on the way to the document
\* the flat keys of the payloads
TickKeys == {<<"a">>, <<"b">>}

\* the document holds for flat key k a value of event n or of a later event
AppliedSince(k, n) ==
    /\ HasAttr(Doc, FullKey(k), ATTR_CURRENT_VALUE)
    /\ AttrVal(Doc, FullKey(k), ATTR_CURRENT_VALUE).ty # "none"
    /\ AttrVal(Doc, FullKey(k), ATTR_CURRENT_VALUE).v >= n

\* an exception has left a merge tick
SomeTickRaised == \E i \in 1..Len(drains) : drains[i].raised

\* C29: while merge ticks keep occurring and the stage is not expired, every
\* key deposited in the staging buffer by a data-read event is eventually in
\* the document with the value of that event or of a later one, unless an
\* apply step of a tick has failed.
C29_DepositedEventuallyApplied ==
    \A k \in TickKeys : \A n \in 1..MaxEvents :
        (k \in DOMAIN last_dep /\ last_dep[k] = n)
            ~> (AppliedSince(k, n) \/ SomeTickRaised)

\* C29's case: no tick has failed, a finished tick found one deposited key
\* in the document and created the other in the same tick, and both hold
\* the value last deposited.
C29_Witness ==
    /\ tick_pc = "idle" /\ ~SomeTickRaised
    /\ \E e \in OpsAt("execute") : tick_ops[e].found
    /\ \E i \in OpsAt("create") :
          \E e \in OpsAt("execute") :
              tick_ops[e].key = tick_ops[i].key /\ ~tick_ops[e].found
    /\ \A k \in TickKeys :
          k \in DOMAIN last_dep /\ AppliedSince(k, last_dep[k])

\* -------------------------------------------------- claims on feedback
\* C30: applying data read from the bridge never makes the change listener
\* call write_variable: whatever keys are executed and created, also a
\* create on a node that already carries the symbol bundle, the bridge
\* receives no write.
C30_NoWriteFromAppliedData == bridge_log = <<>>

\* ------------------------------------------ claims on the constructor
\* C31: no read or write callback runs before the constructor has assigned
\* the event stream: whenever a loop is inside its callback, where a
\* _push_event of the callback is issued, self._event_stream is assigned.
C31_CallbackFindsEventStream ==
    \A t \in Loops : loop_pc[t] = "call" => event_stream
====
